---------------------------- MODULE Spec2Model ----------------------------
(***************************************************************************)
(* Budget alerting of the team expense management backend.                 *)
(*                                                                         *)
(* The state is the content of the two MongoDB collections (teams and      *)
(* expenses) as far as budget alerting reads or writes it, the mail        *)
(* configuration of EmailService, and the outcome of the last service      *)
(* call.  Four specifications share the state:                             *)
(*   Spec      the service operations, one request at a time;              *)
(*   SpecFeed  one team whose approved spend is moved through a sequence   *)
(*             of utilizations, checkBudgetAlerts evaluated after each;    *)
(*   SpecConc  several checkBudgetAlerts calls for one team, interleaved   *)
(*             at their await points;                                      *)
(*   SpecBatch the BudgetService calls over a store of several teams.      *)
(* Further specifications draw the arguments of one function in their      *)
(* initial state and apply it: SpecSuggest, SpecSimilarity,                *)
(* SpecSuspicious, SpecTrend, SpecClassify, SpecForecast, SpecUtilization, *)
(* SpecMail; SpecOrder applies checkAllTeamsBudgetAlerts once to the teams *)
(* in a drawn order; SpecLifecycle follows single expenses through the     *)
(* ExpenseService operations; SpecCreate and SpecEval follow one           *)
(* createExpense and one checkBudgetAlerts call through their awaits, with *)
(* steps that can throw; SpecTrack is the HttpStateService of the front    *)
(* end under overlapping track() calls.                                    *)
(* Strings are sequences of one-character strings.                         *)
(* Amounts are whole currency units.  BudgetUtilization rounds the exact    *)
(* quotient; budgetUtilization computes it in IEEE 754 doubles as the      *)
(* virtual does (SpecUtilization), with the same value on the budgets 10   *)
(* and 100 that the other specifications use.                              *)
(***************************************************************************)
EXTENDS Integers, Sequences, FiniteSets

\* ----- bounds of the model
NumTeams == 2
MaxExpenses == 2
FeedLen == 5
NumProcs == 2
MaxStrLen == 4
MaxWindow == 6
MaxDays == 6

\* ----- program constants
WARNING_THRESHOLD == 80
CRITICAL_THRESHOLD == 100
DefaultForecastPeriodDays == 30

\* ----- input domains
Teams == 1..NumTeams
Procs == 1..NumProcs
Budgets == {0, 10}
Amounts == {2, 8}
SuppliedTotals == {0}
Statuses == {"pending", "approved", "rejected"}
SuppliedStatuses == {"pending", "approved"}
Levels == {"warning", "critical"}
FlagStates == [warning : BOOLEAN, critical : BOOLEAN]
NoFlags == [warning |-> FALSE, critical |-> FALSE]
\* SpecFeed: the team's budget is 100, so an approved spend of u is u percent
FeedUtils == {70, 85, 90, 100}
DrawnAmounts == {8, 10}
\* SpecConc: the team's budget is 10
ConcTotals == {2, 8, 10}
ForecastPeriods == {DefaultForecastPeriodDays}

VARIABLES
    teams,          \* team id -> team document (exists = FALSE: no such document)
    expenses,       \* sequence of expense documents, the index is the id
    emailService,   \* isBrevoConfigured / isBackupConfigured, set by the constructor
    last,           \* the last service call and what it returned
    phase,          \* team id -> "none" | "alerted" | "dropped" (history)
    feed,           \* SpecFeed: the utilizations to evaluate
    pos,            \* SpecFeed: how many of them have been evaluated
    outlog,         \* SpecFeed: the result of each evaluation
    procs,          \* SpecConc: process -> position and local team document
    sentLog,        \* SpecConc: level -> number of sendBudgetAlert calls
    call,           \* the arguments of a call of an AIService / BudgetService function
    result          \* what that call returned

vars == <<teams, expenses, emailService, last, phase,
          feed, pos, outlog, procs, sentLog, call, result>>

\* ----- the documents
NoTeam == [exists |-> FALSE, isActive |-> FALSE, budget |-> 0, totalSpent |-> 0,
           alertsSent |-> NoFlags]

NewTeam(budget, totalSpent, alertsSent) ==
    [exists |-> TRUE, isActive |-> TRUE, budget |-> budget,
     totalSpent |-> totalSpent, alertsSent |-> alertsSent]

NewExpense(team, amount, status) ==
    [team |-> team, amount |-> amount, status |-> status, isActive |-> TRUE]

ExpenseIds(exps) == 1..Len(exps)

RECURSIVE SumAmounts(_, _)
SumAmounts(exps, ids) ==
    IF ids = {} THEN 0
    ELSE LET i == CHOOSE x \in ids : TRUE
         IN exps[i].amount + SumAmounts(exps, ids \ {i})

\* the $match / $group aggregate of updateTotalSpent
ApprovedTotal(exps, t) ==
    SumAmounts(exps, {i \in ExpenseIds(exps) :
                        /\ exps[i].team = t
                        /\ exps[i].status = "approved"
                        /\ exps[i].isActive})

\* Math.round of a non-negative quotient num / den (halves go up)
Round(num, den) == (2 * num + den) \div (2 * den)

\* virtual budgetUtilization
BudgetUtilization(team) ==
    IF team.budget > 0 THEN Round(team.totalSpent * 100, team.budget) ELSE 0

\* methods.updateTotalSpent: recompute from the approved active expenses and save
UpdateTotalSpent(team, exps, t) ==
    [team EXCEPT !.totalSpent = ApprovedTotal(exps, t)]

\* utilization of the approved active spend as it is in the store right now
ActualUtilization(tms, exps, t) ==
    BudgetUtilization(UpdateTotalSpent(tms[t], exps, t))

\* ----- EmailService.sendBudgetAlert
\* mo.brevoOK / mo.backupOK: whether the provider call succeeds if it is made.
\* Every throw inside is caught; the promise never rejects.
SendBudgetAlert_BackupFirst(cfg, mo) ==
    IF ~cfg.isBrevoConfigured /\ ~cfg.isBackupConfigured
    THEN [success |-> TRUE, provider |-> "console-log", rejected |-> FALSE]
    ELSE IF cfg.isBackupConfigured /\ mo.backupOK
    THEN [success |-> TRUE, provider |-> "backup", rejected |-> FALSE]
    ELSE IF cfg.isBrevoConfigured /\ mo.brevoOK
    THEN [success |-> TRUE, provider |-> "brevo", rejected |-> FALSE]
    ELSE [success |-> FALSE, provider |-> "none", rejected |-> FALSE]

SendBudgetAlert(cfg, mo) ==
    IF ~cfg.isBrevoConfigured /\ ~cfg.isBackupConfigured
    THEN [success |-> TRUE, provider |-> "console-log", rejected |-> FALSE]
    ELSE IF cfg.isBrevoConfigured /\ mo.brevoOK
    THEN [success |-> TRUE, provider |-> "brevo", rejected |-> FALSE]
    ELSE IF cfg.isBackupConfigured /\ mo.backupOK
    THEN [success |-> TRUE, provider |-> "backup", rejected |-> FALSE]
    ELSE [success |-> FALSE, provider |-> "none", rejected |-> FALSE]

\* ----- BudgetService.checkBudgetAlerts
\* the level the if / else-if chain decides to alert at
AlertLevel_WarningFirst(utilization, alertsSent) ==
    IF utilization >= WARNING_THRESHOLD /\ ~alertsSent.warning THEN "warning"
    ELSE IF utilization >= CRITICAL_THRESHOLD /\ ~alertsSent.critical THEN "critical"
    ELSE "none"

AlertLevel(utilization, alertsSent) ==
    IF utilization >= CRITICAL_THRESHOLD /\ ~alertsSent.critical THEN "critical"
    ELSE IF utilization >= WARNING_THRESHOLD /\ ~alertsSent.warning THEN "warning"
    ELSE "none"

\* the flag recorded after the send returned (skipped when the send threw)
FlagsAfterSend_OnlyIfDelivered(alertsSent, level, mail) ==
    IF level = "none" \/ mail.rejected \/ ~mail.success THEN alertsSent
    ELSE [alertsSent EXCEPT ![level] = TRUE]

FlagsAfterSend(alertsSent, level, mail) ==
    IF level = "none" \/ mail.rejected THEN alertsSent
    ELSE [alertsSent EXCEPT ![level] = TRUE]

\* reset of both flags below the warning threshold
FlagsAfterReset_NoReset(alertsSent, utilization) == alertsSent

FlagsAfterReset(alertsSent, utilization) ==
    IF utilization < WARNING_THRESHOLD THEN NoFlags ELSE alertsSent

\* if (!team || !team.isActive)
TeamFound_IgnoresActive(team) == team.exists

TeamFound(team) == team.exists /\ team.isActive

NoCheck == [team |-> 0, found |-> FALSE, success |-> FALSE, utilization |-> 0,
            before |-> NoFlags, after |-> NoFlags, alerts |-> <<>>,
            sends |-> <<>>, recross |-> FALSE]

\* the whole handler: the teams afterwards and the returned result
CheckBudgetAlerts(tms, exps, cfg, t, mo, ph) ==
    IF ~TeamFound(tms[t])
    THEN [teams |-> tms,
          res |-> [NoCheck EXCEPT !.team = t, !.before = tms[t].alertsSent,
                                  !.after = tms[t].alertsSent]]
    ELSE LET team == UpdateTotalSpent(tms[t], exps, t)
             u == BudgetUtilization(team)
             level == AlertLevel(u, team.alertsSent)
             mail == SendBudgetAlert(cfg, mo)
             sent == level # "none"
             pushed == sent /\ ~mail.rejected
             flags == FlagsAfterReset(FlagsAfterSend(team.alertsSent, level, mail), u)
         IN [teams |-> [tms EXCEPT ![t] = [team EXCEPT !.alertsSent = flags]],
             res |-> [team |-> t, found |-> TRUE, success |-> TRUE,
                      utilization |-> u,
                      before |-> team.alertsSent, after |-> flags,
                      alerts |-> IF pushed THEN <<level>> ELSE <<>>,
                      sends |-> IF sent
                                THEN <<[level |-> level, delivered |-> mail.success]>>
                                ELSE <<>>,
                      recross |-> ph = "dropped" /\ u >= WARNING_THRESHOLD]]


\* ----- BudgetService.checkAllTeamsBudgetAlerts
\* Team.find({isActive: true}) is taken once; the loop then evaluates the
\* found teams one after the other, in the order of the collection.
RECURSIVE CheckAllFrom(_, _, _, _, _, _, _, _)
CheckAllFrom(t, found, tms, exps, cfg, mo, ph, results) ==
    IF t > NumTeams THEN [teams |-> tms, results |-> results]
    ELSE IF t \notin found
    THEN CheckAllFrom(t + 1, found, tms, exps, cfg, mo, ph, results)
    ELSE LET c == CheckBudgetAlerts(tms, exps, cfg, t, mo[t], ph[t])
         IN CheckAllFrom(t + 1, found, c.teams, exps, cfg, mo, ph,
                         Append(results, c.res))

CheckAllTeamsBudgetAlerts(tms, exps, cfg, mo, ph) ==
    CheckAllFrom(1, {t \in Teams : tms[t].exists /\ tms[t].isActive},
                 tms, exps, cfg, mo, ph, <<>>)

TotalAlerts_CountsResults(results) == Len(results)

RECURSIVE TotalAlerts(_)
TotalAlerts(results) ==
    IF results = <<>> THEN 0
    ELSE Len(Head(results).alerts) + TotalAlerts(Tail(results))

\* ----- BudgetService.calculateBudgetForecast
\* recent: the approved active expenses of the team dated in the last 30 days
Infinity == [finite |-> FALSE, value |-> 0]
Finite(n) == [finite |-> TRUE, value |-> n]

NoForecast == [success |-> FALSE, trend |-> "none", projectedUtilization |-> Finite(0),
               isOverBudgetRisk |-> FALSE]

Max(a, b) == IF a >= b THEN a ELSE b

CalculateBudgetForecast(tms, exps, t, forecastPeriodDays, recent) ==
    IF ~TeamFound(tms[t]) THEN NoForecast
    ELSE IF recent = {}
    THEN [success |-> TRUE, trend |-> "no_data",
          projectedUtilization |-> Finite(BudgetUtilization(tms[t])),
          isOverBudgetRisk |-> FALSE]
    ELSE LET totalRecentSpending == SumAmounts(exps, recent)
             \* daysWithData = max(1, length / 2) = den / 2
             den == Max(2, Cardinality(recent))
             \* projectedTotal = totalSpent + (totalRecentSpending / daysWithData) * days
             \*                = num / den
             num == tms[t].totalSpent * den
                    + 2 * totalRecentSpending * forecastPeriodDays
             util == IF tms[t].budget = 0 THEN Infinity
                     ELSE Finite(Round(num * 100, den * tms[t].budget))
         IN [success |-> TRUE, trend |-> "projected",
             projectedUtilization |-> util,
             isOverBudgetRisk |-> ~util.finite \/ util.value > 100]

\* ----- history kept for the properties
TeamChecks(checks, t) ==
    {i \in 1..Len(checks) : checks[i].team = t /\ checks[i].found}

\* "alerted": a warning went out and the approved spend has stayed at or above
\* the warning threshold; "dropped": it has since been below it and no
\* evaluation has run yet at or above the threshold.
NextPhase(ph, t, tms2, exps2, checks) ==
    IF TeamChecks(checks, t) # {}
    THEN LET r == checks[CHOOSE i \in TeamChecks(checks, t) : TRUE]
         IN IF r.utilization < WARNING_THRESHOLD THEN "none"
            ELSE IF r.alerts = <<"warning">> \/ ph \in {"alerted", "dropped"}
                 THEN "alerted"
                 ELSE "none"
    ELSE IF ph = "alerted" /\ ActualUtilization(tms2, exps2, t) < WARNING_THRESHOLD
         THEN "dropped"
         ELSE ph

\* what every operation of Spec does besides its own effect
Finish(op, t, ok, tms2, exps2, checks, forecast) ==
    /\ teams' = tms2
    /\ expenses' = exps2
    /\ last' = [op |-> op, team |-> t, ok |-> ok, checks |-> checks,
                forecast |-> forecast]
    /\ phase' = [x \in Teams |-> NextPhase(phase[x], x, tms2, exps2, checks)]
    /\ UNCHANGED <<emailService, feed, pos, outlog, procs, sentLog, call, result>>

\* ----- initial state: empty collections, EmailService constructed
\* what the providers do when called: Brevo delivers; Brevo fails and the
\* backup delivers; both fail
MailOutcomes == {[brevoOK |-> TRUE, backupOK |-> TRUE],
                 [brevoOK |-> FALSE, backupOK |-> TRUE],
                 [brevoOK |-> FALSE, backupOK |-> FALSE]}

DefaultMailConfig == [isBrevoConfigured |-> TRUE, isBackupConfigured |-> TRUE]

NoLast == [op |-> "init", team |-> 0, ok |-> TRUE, checks |-> <<>>,
           forecast |-> NoForecast]

NoCall == [fn |-> "none"]

NoResult == [fn |-> "none"]

IdleProcs == [p \in Procs |-> [pc |-> "idle", loaded |-> NoTeam, doc |-> NoTeam,
                               total |-> 0, level |-> "none"]]

Init ==
    /\ teams = [t \in Teams |-> NoTeam]
    /\ expenses = <<>>
    /\ emailService = DefaultMailConfig
    /\ last = NoLast
    /\ phase = [t \in Teams |-> "none"]
    /\ feed = <<>>
    /\ pos = 0
    /\ outlog = <<>>
    /\ procs = IdleProcs
    /\ sentLog = [l \in Levels |-> 0]
    /\ call = NoCall
    /\ result = NoResult

\* ----- TeamService
\* createTeam: new Team(teamData) takes every schema field the caller supplies,
\* totalSpent and alertsSent included; the schema defaults are 0 and false.
\* Spec follows one team: the team is created once, the other ids stay missing.
CreateTeam ==
    \E t \in Teams, budget \in Budgets, totalSpent \in SuppliedTotals,
       alertsSent \in FlagStates :
        /\ \A x \in Teams : ~teams[x].exists
        /\ \A x \in Teams : t <= x
        /\ Finish("createTeam", t, TRUE,
                  [teams EXCEPT ![t] = NewTeam(budget, totalSpent, alertsSent)],
                  expenses, <<>>, NoForecast)

\* updateTeam: totalSpent and alertsSent are stripped from the update; a truthy
\* budget in the update clears both flags.
TeamUpdates == {[hasBudget |-> FALSE, budget |-> 0]}
               \cup {[hasBudget |-> TRUE, budget |-> b] : b \in Budgets}

UpdateTeamDoc(team, updateData) ==
    LET updated == IF updateData.hasBudget
                   THEN [team EXCEPT !.budget = updateData.budget]
                   ELSE team
    IN IF updateData.hasBudget /\ updateData.budget # 0
       THEN [updated EXCEPT !.alertsSent = NoFlags]
       ELSE updated

UpdateTeam ==
    \E t \in Teams, updateData \in TeamUpdates :
        LET found == teams[t].exists /\ teams[t].isActive
        IN Finish("updateTeam", t, found,
                  IF found THEN [teams EXCEPT ![t] = UpdateTeamDoc(teams[t], updateData)]
                           ELSE teams,
                  expenses, <<>>, NoForecast)

\* deleteTeam: soft delete of the team and of all its expenses
DeactivateTeamExpenses(exps, t) ==
    [i \in ExpenseIds(exps) |->
        IF exps[i].team = t THEN [exps[i] EXCEPT !.isActive = FALSE] ELSE exps[i]]

DeleteTeam ==
    \E t \in Teams :
        LET found == teams[t].exists /\ teams[t].isActive
        IN Finish("deleteTeam", t, found,
                  IF found THEN [teams EXCEPT ![t].isActive = FALSE] ELSE teams,
                  IF found THEN DeactivateTeamExpenses(expenses, t) ELSE expenses,
                  <<>>, NoForecast)

\* ----- Expense hooks
\* post('save'): an approved active expense makes its team recompute totalSpent
PostSave(tms, exps, e) ==
    IF exps[e].status = "approved" /\ exps[e].isActive /\ tms[exps[e].team].exists
    THEN [tms EXCEPT ![exps[e].team] = UpdateTotalSpent(tms[exps[e].team], exps,
                                                        exps[e].team)]
    ELSE tms

\* ----- ExpenseService
\* createExpense: new Expense(expenseData) and save; status is a schema field
\* the caller may supply (default pending).  The two later saves of aiInsights
\* run the same hook over the same data.
CreateExpense ==
    \E t \in Teams, amount \in Amounts, status \in SuppliedStatuses :
        /\ teams[t].exists
        /\ Len(expenses) < MaxExpenses
        /\ LET exps2 == Append(expenses, NewExpense(t, amount, status))
           IN Finish("createExpense", t, TRUE,
                     PostSave(teams, exps2, Len(exps2)), exps2, <<>>, NoForecast)

\* updateExpense: findOneAndUpdate on an active pending expense, no hook.
\* updateData is an update document: its top-level keys that are not
\* operators (plain) and the content of its $set operator (set), each a set of
\* entries path -> value.  The destructuring takes the own keys status,
\* approvedBy and aiInsights out of the top level; Mongoose then sets every
\* remaining top-level path and every path of $set, dotted paths included.
Entry(path, num, str) == [path |-> path, num |-> num, str |-> str]

SafeUpdateData(updateData) ==
    [updateData EXCEPT
        !.plain = {x \in @ : x.path \notin {"status", "approvedBy", "aiInsights"}}]

SetPath(doc, x) ==
    CASE x.path = "amount" -> [doc EXCEPT !.amount = x.num]
      [] x.path = "status" -> [doc EXCEPT !.status = x.str]
      [] x.path \in {"approvedBy", "approvedBy.name"} -> [doc EXCEPT !.approvedBy = x.str]
      [] x.path \in {"aiInsights", "aiInsights.suggestedCategory"}
            -> [doc EXCEPT !.aiInsights = x.str]
      [] OTHER -> doc

RECURSIVE SetPaths(_, _)
SetPaths(doc, entries) ==
    IF entries = {} THEN doc
    ELSE LET x == CHOOSE y \in entries : TRUE
         IN SetPaths(SetPath(doc, x), entries \ {x})

UpdateExpenseDoc(doc, updateData) ==
    SetPaths(doc, SafeUpdateData(updateData).plain \cup updateData.set)

\* Spec: the updates that change the amount
AmountUpdates == {[plain |-> {Entry("amount", a, "")}, set |-> {}] : a \in Amounts}

UpdateExpense ==
    \E e \in ExpenseIds(expenses), updateData \in AmountUpdates :
        LET found == expenses[e].isActive /\ expenses[e].status = "pending"
        IN Finish("updateExpense", expenses[e].team, found, teams,
                  IF found
                  THEN [expenses EXCEPT ![e] = UpdateExpenseDoc(@, updateData)]
                  ELSE expenses,
                  <<>>, NoForecast)

\* deleteExpense: findOneAndUpdate sets isActive false, no hook
DeleteExpense ==
    \E e \in ExpenseIds(expenses) :
        LET found == expenses[e].isActive
        IN Finish("deleteExpense", expenses[e].team, found, teams,
                  IF found THEN [expenses EXCEPT ![e].isActive = FALSE] ELSE expenses,
                  <<>>, NoForecast)

\* approveExpense: approve() saves (hook), then checkBudgetAlerts of the team
ApproveExpense_ChecksBeforeSave ==
    \E e \in ExpenseIds(expenses), mo \in MailOutcomes :
        LET found == expenses[e].isActive /\ expenses[e].status = "pending"
            t == expenses[e].team
            exps2 == [expenses EXCEPT ![e].status = "approved"]
            c == CheckBudgetAlerts(teams, expenses, emailService, t, mo, phase[t])
        IN IF found
           THEN Finish("approveExpense", t, TRUE, PostSave(c.teams, exps2, e), exps2,
                       <<c.res>>, NoForecast)
           ELSE Finish("approveExpense", t, FALSE, teams, expenses, <<>>, NoForecast)

ApproveExpense ==
    \E e \in ExpenseIds(expenses), mo \in MailOutcomes :
        LET found == expenses[e].isActive /\ expenses[e].status = "pending"
            t == expenses[e].team
            exps2 == [expenses EXCEPT ![e].status = "approved"]
            c == CheckBudgetAlerts(PostSave(teams, exps2, e), exps2, emailService,
                                   t, mo, phase[t])
        IN IF found
           THEN Finish("approveExpense", t, TRUE, c.teams, exps2, <<c.res>>, NoForecast)
           ELSE Finish("approveExpense", t, FALSE, teams, expenses, <<>>, NoForecast)

\* rejectExpense: reject() saves; the hook does nothing for a rejected expense
RejectExpense ==
    \E e \in ExpenseIds(expenses) :
        LET found == expenses[e].isActive /\ expenses[e].status = "pending"
            exps2 == [expenses EXCEPT ![e].status = "rejected"]
        IN IF found
           THEN Finish("rejectExpense", expenses[e].team, TRUE,
                       PostSave(teams, exps2, e), exps2, <<>>, NoForecast)
           ELSE Finish("rejectExpense", expenses[e].team, FALSE, teams, expenses,
                       <<>>, NoForecast)

\* ----- BudgetService, called directly
CheckBudgetAlertsCall ==
    \E t \in Teams, mo \in MailOutcomes :
        LET c == CheckBudgetAlerts(teams, expenses, emailService, t, mo, phase[t])
        IN Finish("checkBudgetAlerts", t, c.res.success, c.teams, expenses,
                  <<c.res>>, NoForecast)

CheckAllTeamsCall ==
    \E mo \in [Teams -> MailOutcomes] :
        LET c == CheckAllTeamsBudgetAlerts(teams, expenses, emailService, mo, phase)
        IN Finish("checkAllTeamsBudgetAlerts", 0, TRUE, c.teams, expenses,
                  c.results, NoForecast)

CalculateBudgetForecastCall ==
    \E t \in Teams, days \in ForecastPeriods :
      \E recent \in SUBSET {i \in ExpenseIds(expenses) :
                              /\ expenses[i].team = t
                              /\ expenses[i].status = "approved"
                              /\ expenses[i].isActive} :
        LET f == CalculateBudgetForecast(teams, expenses, t, days, recent)
        IN Finish("calculateBudgetForecast", t, f.success, teams, expenses, <<>>, f)

\* ----- POST /reset-budget-alerts with a teamId: clear both flags, save, check
ResetBudgetAlerts ==
    \E t \in Teams, mo \in MailOutcomes :
        LET cleared == [teams EXCEPT ![t].alertsSent = NoFlags]
            c == CheckBudgetAlerts(cleared, expenses, emailService, t, mo, phase[t])
        IN IF teams[t].exists
           THEN Finish("resetBudgetAlerts", t, TRUE, c.teams, expenses, <<c.res>>,
                       NoForecast)
           ELSE Finish("resetBudgetAlerts", t, FALSE, teams, expenses, <<>>,
                       NoForecast)

Next ==
    \/ CreateTeam
    \/ UpdateTeam
    \/ DeleteTeam
    \/ CreateExpense
    \/ UpdateExpense
    \/ DeleteExpense
    \/ ApproveExpense
    \/ RejectExpense
    \/ CheckBudgetAlertsCall
    \/ CheckAllTeamsCall
    \/ ResetBudgetAlerts

Spec == Init /\ [][Next]_vars

\* ----- SpecFeed: one team, its approved spend moved from one utilization
\* to the next by the expense operations in between, checkBudgetAlerts after each
FirstTeam == CHOOSE t \in Teams : \A x \in Teams : t <= x

InitFeed ==
    /\ teams = [t \in Teams |-> IF t = FirstTeam THEN NewTeam(100, 0, NoFlags)
                                                 ELSE NoTeam]
    /\ expenses = <<>>
    /\ emailService = DefaultMailConfig
    /\ last = NoLast
    /\ phase = [t \in Teams |-> "none"]
    /\ feed \in [1..FeedLen -> FeedUtils]
    /\ pos = 0
    /\ outlog = <<>>
    /\ procs = IdleProcs
    /\ sentLog = [l \in Levels |-> 0]
    /\ call = NoCall
    /\ result = NoResult

Evaluate ==
    \E mo \in MailOutcomes :
        /\ pos < Len(feed)
        /\ LET exps2 == <<NewExpense(FirstTeam, feed[pos + 1], "approved")>>
               c == CheckBudgetAlerts(teams, exps2, emailService, FirstTeam,
                                      mo, "none")
           IN /\ teams' = c.teams
              /\ expenses' = exps2
              /\ outlog' = Append(outlog, c.res)
              /\ last' = [op |-> "checkBudgetAlerts", team |-> FirstTeam,
                          ok |-> c.res.success, checks |-> <<c.res>>,
                          forecast |-> NoForecast]
        /\ pos' = pos + 1
        /\ UNCHANGED <<emailService, phase, feed, procs, sentLog, call, result>>

SpecFeed == InitFeed /\ [][Evaluate]_vars

\* ----- SpecConc: NumProcs calls of checkBudgetAlerts for the first team, each
\* split at its awaits: findById, aggregate, save of totalSpent, send, save
InitConc ==
    \E total \in ConcTotals, alertsSent \in FlagStates :
        /\ teams = [t \in Teams |-> IF t = FirstTeam
                                    THEN NewTeam(10, total, alertsSent)
                                    ELSE NoTeam]
        /\ expenses = <<NewExpense(FirstTeam, total, "approved")>>
        /\ emailService = DefaultMailConfig
        /\ last = NoLast
        /\ phase = [t \in Teams |-> "none"]
        /\ feed = <<>>
        /\ pos = 0
        /\ outlog = <<>>
        /\ procs = IdleProcs
        /\ sentLog = [l \in Levels |-> 0]
        /\ call = NoCall
        /\ result = NoResult

ConcFrame == UNCHANGED <<expenses, emailService, last, phase, feed, pos, outlog,
                         call, result>>

\* await Team.findById(teamId)
ConcLoad(p) ==
    /\ procs[p].pc = "idle"
    /\ procs' = [procs EXCEPT ![p] =
                   IF ~teams[FirstTeam].exists \/ ~teams[FirstTeam].isActive
                   THEN [@ EXCEPT !.pc = "done"]
                   ELSE [@ EXCEPT !.pc = "loaded", !.loaded = teams[FirstTeam],
                                  !.doc = teams[FirstTeam]]]
    /\ UNCHANGED <<teams, sentLog>>
    /\ ConcFrame

\* updateTotalSpent: await Expense.aggregate(...)
ConcAggregate(p) ==
    /\ procs[p].pc = "loaded"
    /\ procs' = [procs EXCEPT ![p].pc = "aggregated",
                              ![p].total = ApprovedTotal(expenses, FirstTeam)]
    /\ UNCHANGED <<teams, sentLog>>
    /\ ConcFrame

\* updateTotalSpent: this.totalSpent = total; await this.save(); then the
\* threshold tests up to the call of sendBudgetAlert or, without one, to the
\* reset before the final save
ConcSaveTotal(p) ==
    /\ procs[p].pc = "aggregated"
    /\ LET doc == [procs[p].doc EXCEPT !.totalSpent = procs[p].total]
           u == BudgetUtilization(doc)
           level == AlertLevel(u, doc.alertsSent)
       IN /\ teams' = [teams EXCEPT ![FirstTeam].totalSpent = procs[p].total]
          /\ IF level # "none"
             THEN /\ procs' = [procs EXCEPT ![p].pc = "sending", ![p].doc = doc,
                                            ![p].level = level]
                  /\ sentLog' = [sentLog EXCEPT ![level] = @ + 1]
             ELSE /\ procs' = [procs EXCEPT ![p].pc = "saving",
                                 ![p].doc = [doc EXCEPT !.alertsSent =
                                               FlagsAfterReset(doc.alertsSent, u)]]
                  /\ UNCHANGED sentLog
    /\ ConcFrame

\* await emailService.sendBudgetAlert(...) returns; flag set, reset test
ConcSent(p) ==
    \E mo \in MailOutcomes :
        /\ procs[p].pc = "sending"
        /\ LET doc == procs[p].doc
               mail == SendBudgetAlert(emailService, mo)
               flags == FlagsAfterReset(
                            FlagsAfterSend(doc.alertsSent, procs[p].level, mail),
                            BudgetUtilization(doc))
           IN procs' = [procs EXCEPT ![p].pc = "saving",
                                     ![p].doc = [doc EXCEPT !.alertsSent = flags]]
        /\ UNCHANGED <<teams, sentLog>>
        /\ ConcFrame

\* await team.save(): Mongoose writes the paths this document modified
SaveModified(stored, loaded, doc) ==
    [stored EXCEPT !.alertsSent =
        [l \in Levels |-> IF doc.alertsSent[l] # loaded.alertsSent[l]
                          THEN doc.alertsSent[l]
                          ELSE stored.alertsSent[l]]]

ConcSave(p) ==
    /\ procs[p].pc = "saving"
    /\ teams' = [teams EXCEPT ![FirstTeam] =
                   SaveModified(@, procs[p].loaded, procs[p].doc)]
    /\ procs' = [procs EXCEPT ![p].pc = "done"]
    /\ UNCHANGED sentLog
    /\ ConcFrame

NextConc ==
    \E p \in Procs :
        \/ ConcLoad(p)
        \/ ConcAggregate(p)
        \/ ConcSaveTotal(p)
        \/ ConcSent(p)
        \/ ConcSave(p)

SpecConc == InitConc /\ [][NextConc]_vars

\* ----- SpecBatch: the BudgetService calls over a store of several teams.
\* The store is drawn from the documents the service operations can leave
\* behind: missing, deleted and active teams, expenses in creation order.
DrawnTeams ==
    {NoTeam}
    \cup {[NewTeam(b, 0, NoFlags) EXCEPT !.isActive = FALSE] : b \in Budgets \ {0}}
    \cup {NewTeam(b, 0, f) : b \in Budgets \ {0}, f \in FlagStates}
    \cup {NewTeam(0, 0, NoFlags)}

\* one approved expense of amount spend[t] for every team t drawn with one
RECURSIVE DrawnExpenses(_, _)
DrawnExpenses(spend, t) ==
    IF t > NumTeams THEN <<>>
    ELSE IF spend[t] = 0 THEN DrawnExpenses(spend, t + 1)
    ELSE <<NewExpense(t, spend[t], "approved")>> \o DrawnExpenses(spend, t + 1)

InitBatch ==
    \E d \in [Teams -> DrawnTeams], spend \in [Teams -> {0} \cup DrawnAmounts] :
        /\ \A t \in Teams : ~d[t].exists => spend[t] = 0
        /\ expenses = DrawnExpenses(spend, 1)
        /\ teams = [t \in Teams |->
                      IF d[t].exists
                      THEN UpdateTotalSpent(d[t], DrawnExpenses(spend, 1), t)
                      ELSE d[t]]
        /\ emailService = DefaultMailConfig
        /\ last = NoLast
        /\ phase = [t \in Teams |-> "none"]
        /\ feed = <<>>
        /\ pos = 0
        /\ outlog = <<>>
        /\ procs = IdleProcs
        /\ sentLog = [l \in Levels |-> 0]
        /\ call = NoCall
        /\ result = NoResult

NextBatch ==
    \/ CheckBudgetAlertsCall
    \/ CheckAllTeamsCall
    \/ CalculateBudgetForecastCall

SpecBatch == InitBatch /\ [][NextBatch]_vars

\* ======================= AIService =======================
\* ----- strings: String.prototype.toLowerCase and includes
UpperCase == <<"A", "B", "C", "D", "E", "F", "G", "H", "I", "J", "K", "L", "M",
               "N", "O", "P", "Q", "R", "S", "T", "U", "V", "W", "X", "Y", "Z">>

LowerCase == <<"a", "b", "c", "d", "e", "f", "g", "h", "i", "j", "k", "l", "m",
               "n", "o", "p", "q", "r", "s", "t", "u", "v", "w", "x", "y", "z">>

ToLowerChar(c) ==
    IF \E i \in 1..Len(UpperCase) : UpperCase[i] = c
    THEN LowerCase[CHOOSE i \in 1..Len(UpperCase) : UpperCase[i] = c]
    ELSE c

ToLowerCase(str) == [i \in 1..Len(str) |-> ToLowerChar(str[i])]

Includes(str, keyword) ==
    \E i \in 0..(Len(str) - Len(keyword)) :
        SubSeq(str, i + 1, i + Len(keyword)) = keyword

\* ----- numbers: confidences are counted in hundredths; NaN is what
\* arithmetic on undefined or on a non-numeric string gives
NaN == [isNaN |-> TRUE, value |-> 0]

Num(n) == [isNaN |-> FALSE, value |-> n]

ToNumber(x) == IF x.type = "number" THEN Num(x.value) ELSE NaN

MathMax(a, b) ==
    IF a.isNaN \/ b.isNaN THEN NaN
    ELSE IF a.value >= b.value THEN a ELSE b

MathMin(a, b) ==
    IF a.isNaN \/ b.isNaN THEN NaN
    ELSE IF a.value <= b.value THEN a ELSE b

Minus(a, n) == IF a.isNaN THEN NaN ELSE Num(a.value - n)

\* ----- AIService constructor: this.categories
categories == <<"travel", "food", "supplies", "software",
                "hardware", "training", "entertainment", "other">>

CategorySet == {categories[i] : i \in 1..Len(categories)}

\* ----- AIService.fallbackCategorySuggestion
categoryKeywords == <<
    [category |-> "travel",
     keywords |-> <<<<"f", "l", "i", "g", "h", "t">>,
                    <<"h", "o", "t", "e", "l">>,
                    <<"u", "b", "e", "r">>,
                    <<"t", "a", "x", "i">>,
                    <<"g", "a", "s">>,
                    <<"m", "i", "l", "e", "a", "g", "e">>,
                    <<"r", "e", "n", "t", "a", "l">>,
                    <<"a", "i", "r", "b", "n", "b">>,
                    <<"t", "r", "i", "p">>,
                    <<"t", "r", "a", "v", "e", "l">>>>],
    [category |-> "food",
     keywords |-> <<<<"r", "e", "s", "t", "a", "u", "r", "a", "n", "t">>,
                    <<"l", "u", "n", "c", "h">>,
                    <<"d", "i", "n", "n", "e", "r">>,
                    <<"c", "o", "f", "f", "e", "e">>,
                    <<"m", "e", "a", "l">>,
                    <<"c", "a", "t", "e", "r", "i", "n", "g">>,
                    <<"s", "t", "a", "r", "b", "u", "c", "k", "s">>,
                    <<"f", "o", "o", "d">>,
                    <<"e", "a", "t">>>>],
    [category |-> "supplies",
     keywords |-> <<<<"p", "a", "p", "e", "r">>,
                    <<"p", "e", "n">>,
                    <<"o", "f", "f", "i", "c", "e">>,
                    <<"s", "u", "p", "p", "l", "i", "e", "s">>,
                    <<"s", "t", "a", "t", "i", "o", "n", "e", "r", "y">>,
                    <<"p", "r", "i", "n", "t", "e", "r">>,
                    <<"i", "n", "k">>,
                    <<"m", "a", "t", "e", "r", "i", "a", "l", "s">>>>],
    [category |-> "software",
     keywords |-> <<<<"s", "u", "b", "s", "c", "r", "i", "p", "t", "i", "o", "n">>,
                    <<"l", "i", "c", "e", "n", "s", "e">>,
                    <<"s", "a", "a", "s">>,
                    <<"s", "o", "f", "t", "w", "a", "r", "e">>,
                    <<"a", "p", "p">>,
                    <<"s", "e", "r", "v", "i", "c", "e">>,
                    <<"t", "o", "o", "l">>,
                    <<"p", "l", "a", "t", "f", "o", "r", "m">>>>],
    [category |-> "hardware",
     keywords |-> <<<<"c", "o", "m", "p", "u", "t", "e", "r">>,
                    <<"l", "a", "p", "t", "o", "p">>,
                    <<"m", "o", "u", "s", "e">>,
                    <<"k", "e", "y", "b", "o", "a", "r", "d">>,
                    <<"m", "o", "n", "i", "t", "o", "r">>,
                    <<"d", "e", "v", "i", "c", "e">>,
                    <<"e", "q", "u", "i", "p", "m", "e", "n", "t">>,
                    <<"h", "a", "r", "d", "w", "a", "r", "e">>>>],
    [category |-> "training",
     keywords |-> <<<<"t", "r", "a", "i", "n", "i", "n", "g">>,
                    <<"c", "o", "u", "r", "s", "e">>,
                    <<"c", "o", "n", "f", "e", "r", "e", "n", "c", "e">>,
                    <<"w", "o", "r", "k", "s", "h", "o", "p">>,
                    <<"c", "e", "r", "t", "i", "f", "i", "c", "a", "t", "i", "o", "n">>,
                    <<"l", "e", "a", "r", "n", "i", "n", "g">>,
                    <<"e", "d", "u", "c", "a", "t", "i", "o", "n">>>>],
    [category |-> "entertainment",
     keywords |-> <<<<"e", "n", "t", "e", "r", "t", "a", "i", "n", "m", "e", "n", "t">>,
                    <<"c", "l", "i", "e", "n", "t">>,
                    <<"t", "e", "a", "m", " ", "b", "u", "i", "l", "d", "i", "n", "g">>,
                    <<"e", "v", "e", "n", "t">>,
                    <<"p", "a", "r", "t", "y">>,
                    <<"c", "e", "l", "e", "b", "r", "a", "t", "i", "o", "n">>>>] >>

\* keywords.filter(keyword => desc.includes(keyword)).length
Matches(desc, keywords) ==
    Cardinality({k \in 1..Len(keywords) : Includes(desc, keywords[k])})

\* the for loop over Object.entries(categoryKeywords), from entry c on
RECURSIVE BestMatchFrom_LastOnTies(_, _, _)
BestMatchFrom_LastOnTies(desc, c, bestMatch) ==
    IF c > Len(categoryKeywords) THEN bestMatch
    ELSE LET matches == Matches(desc, categoryKeywords[c].keywords)
             confidence == MathMin(Num(80), Num(30 + matches * 20))
         IN BestMatchFrom_LastOnTies(desc, c + 1,
                IF matches > 0 /\ confidence.value >= bestMatch.confidence.value
                THEN [category |-> categoryKeywords[c].category,
                      confidence |-> confidence]
                ELSE bestMatch)

RECURSIVE BestMatchFrom(_, _, _)
BestMatchFrom(desc, c, bestMatch) ==
    IF c > Len(categoryKeywords) THEN bestMatch
    ELSE LET matches == Matches(desc, categoryKeywords[c].keywords)
             confidence == MathMin(Num(80), Num(30 + matches * 20))
         IN BestMatchFrom(desc, c + 1,
                IF matches > 0 /\ confidence.value > bestMatch.confidence.value
                THEN [category |-> categoryKeywords[c].category,
                      confidence |-> confidence]
                ELSE bestMatch)

FallbackCategorySuggestion(description) ==
    BestMatchFrom(ToLowerCase(description), 1,
                  [category |-> "other", confidence |-> Num(10)])

\* ----- AIService.suggestCategory
\* What openai.chat.completions.create does: it rejects (error or timeout), or
\* it resolves with content that is not JSON ("text"), that is JSON null, a
\* number or a string ("primitive": the property access or the assignment
\* throws in the strict-mode class body), or that is a JSON object.  Of an
\* object the category is a listed one ("food"), an unlisted one ("misc") or
\* missing, and the confidence is a number, a non-numeric string or missing.
Undefined == [type |-> "undefined", value |-> 0]

ResponseCategories == {"food", "misc", "undefined"}

ResponseConfidences ==
    {[type |-> "number", value |-> v] : v \in {-50, 20, 90, 150}}
    \cup {Undefined, [type |-> "string", value |-> 0]}

Completions ==
    {[kind |-> k, category |-> "undefined", confidence |-> Undefined] :
        k \in {"rejects", "text", "primitive"}}
    \cup {[kind |-> "object", category |-> c, confidence |-> x] :
            c \in ResponseCategories, x \in ResponseConfidences}

SuggestCategory(openai, description, completion) ==
    IF ~openai THEN FallbackCategorySuggestion(description)
    ELSE IF completion.kind = "rejects"
    THEN FallbackCategorySuggestion(description)
    ELSE IF completion.kind = "text"
    THEN FallbackCategorySuggestion(description)
    ELSE IF completion.kind = "primitive"
    THEN FallbackCategorySuggestion(description)
    ELSE LET valid == completion.category \in CategorySet
             corrected == IF valid THEN ToNumber(completion.confidence)
                          ELSE MathMax(Num(10),
                                       Minus(ToNumber(completion.confidence), 30))
         IN [category |-> IF valid THEN completion.category ELSE "other",
             confidence |-> MathMax(Num(0), MathMin(Num(100), corrected))]

\* ----- the specifications of single function calls
InitCalls(calls) ==
    /\ teams = [t \in Teams |-> NoTeam]
    /\ expenses = <<>>
    /\ emailService = DefaultMailConfig
    /\ last = NoLast
    /\ phase = [t \in Teams |-> "none"]
    /\ feed = <<>>
    /\ pos = 0
    /\ outlog = <<>>
    /\ procs = IdleProcs
    /\ sentLog = [l \in Levels |-> 0]
    /\ call \in calls
    /\ result = NoResult

CallFrame == UNCHANGED <<teams, expenses, emailService, last, phase, feed, pos,
                         outlog, procs, sentLog, call>>

\* ----- SpecSuggest: one call of suggestCategory
Descriptions ==
    {
<<"F", "l", "i", "g", "h", "t", " ", "t", "o", " ", "c", "l", "i", "e", "n", "t", " ", "s", "i", "t", "e">>,
     <<"T", "e", "a", "m", " ", "l", "u", "n", "c", "h">>,
     <<"T", "e", "a", "m", " ", "L", "u", "n", "c", "h", " ">>,
     <<"H", "o", "t", "e", "l", ",", " ", "t", "a", "x", "i", " ", "a", "n", "d", " ", "f", "l", "i", "g", "h", "t", " ", "f", "o", "r", " ", "t", "h", "e", " ", "t", "r", "i", "p">>,
     <<"O", "f", "f", "i", "c", "e", " ", "p", "e", "n", "s">>,
     <<"E", "x", "p", "e", "n", "s", "e", " ", "r", "e", "p", "o", "r", "t">>,
     <<"M", "i", "s", "c">>,
     <<"L", "A", "P", "T", "O", "P">>}

SuggestCalls ==
    {[fn |-> "suggestCategory", openai |-> o, description |-> d, completion |-> c] :
        o \in BOOLEAN, d \in Descriptions, c \in Completions}

SuggestCategoryCall ==
    /\ call.fn = "suggestCategory"
    /\ result = NoResult
    /\ result' = SuggestCategory(call.openai, call.description, call.completion)
    /\ CallFrame

SpecSuggest == InitCalls(SuggestCalls) /\ [][SuggestCategoryCall]_vars

\* ----- SpecClassify: one call of suggestCategory, the reasoning included.
\* A reasoning is the sequence of its parts: what the classifier or the
\* keyword matcher wrote, then the notes suggestCategory appended with +=.
NonJsonNote == "(AI returned non-JSON)"

CorrectedNote == "(Category corrected to other)"

SuggestReasoning_NoNote(openai, description, completion) ==
    IF ~openai \/ completion.kind \in {"rejects", "primitive"} THEN <<"keywords">>
    ELSE IF completion.kind = "text" THEN <<"keywords", NonJsonNote>>
    ELSE <<completion.reasoning>>

SuggestReasoning(openai, description, completion) ==
    IF ~openai \/ completion.kind \in {"rejects", "primitive"} THEN <<"keywords">>
    ELSE IF completion.kind = "text" THEN <<"keywords", NonJsonNote>>
    ELSE IF completion.category \in CategorySet THEN <<completion.reasoning>>
    ELSE <<completion.reasoning, CorrectedNote>>

\* the object suggestCategory returns
SuggestCategoryResult(openai, description, completion) ==
    LET r == SuggestCategory(openai, description, completion)
    IN [category |-> r.category, confidence |-> r.confidence,
        reasoning |-> SuggestReasoning(openai, description, completion)]

\* what the classifier answers: categories in and outside the enum,
\* confidences in hundredths inside and outside [0, 1] or missing, a reasoning
\* text or none
ClassifierCategories == {"food", "other", "misc", "Food", "undefined"}

ClassifierConfidences ==
    {[type |-> "number", value |-> v] :
        v \in {-50, 0, 20, 30, 40, 45, 90, 100, 120, 130, 150}}
    \cup {Undefined}

ClassifierCompletions ==
    {[kind |-> k, category |-> "undefined", confidence |-> Undefined,
      reasoning |-> "undefined"] : k \in {"rejects", "text", "primitive"}}
    \cup {[kind |-> "object", category |-> c, confidence |-> x, reasoning |-> r] :
            c \in ClassifierCategories, x \in ClassifierConfidences,
            r \in {"classifier", "undefined"}}

ClassifyCalls ==
    {[fn |-> "suggestCategory", openai |-> o, description |-> d, completion |-> c] :
        o \in BOOLEAN,
        d \in {<<"T", "e", "a", "m", " ", "l", "u", "n", "c", "h">>,
               <<"M", "i", "s", "c">>},
        c \in ClassifierCompletions}

ClassifyCall ==
    /\ call.fn = "suggestCategory"
    /\ result = NoResult
    /\ result' = SuggestCategoryResult(call.openai, call.description, call.completion)
    /\ CallFrame

SpecClassify == InitCalls(ClassifyCalls) /\ [][ClassifyCall]_vars

\* ----- similarities are exact fractions: 1 - distance / maxLength is
\* (maxLength - distance) / maxLength
Ratio(num, den) == [num |-> num, den |-> den]

SameValue(x, y) == x.num * y.den = y.num * x.den

\* x > p / q for a fraction x and positive p, q
Exceeds(x, p, q) == x.num * q > p * x.den

Min3(a, b, c) ==
    IF a <= b /\ a <= c THEN a ELSE IF b <= c THEN b ELSE c

\* ----- AIService.calculateTextSimilarity (aiService.js)
\* matrix[i][j] from matrix[i-1][j], matrix[i][j-1], matrix[i-1][j-1] and the
\* two characters compared
AIService_cell_CostlyInsert(up, left, diag, c1, c2) ==
    Min3(up + 2, left + 1, diag + (IF c1 = c2 THEN 0 ELSE 1))

AIService_cell(up, left, diag, c1, c2) ==
    Min3(up + 1, left + 1, diag + (IF c1 = c2 THEN 0 ELSE 1))

\* the inner loop over j = Len(row): row holds matrix[i][0 .. j-1], prev is
\* matrix[i-1]
RECURSIVE AIService_rowFrom(_, _, _, _)
AIService_rowFrom(str1, ch, prev, row) ==
    LET j == Len(row)
    IN IF j > Len(str1) THEN row
       ELSE AIService_rowFrom(str1, ch, prev,
                Append(row, AIService_cell(prev[j + 1], row[j], prev[j], str1[j], ch)))

\* the outer loop over i = Len(matrix): matrix holds the rows 0 .. i-1
RECURSIVE AIService_matrixFrom(_, _, _)
AIService_matrixFrom(str1, str2, matrix) ==
    LET i == Len(matrix)
    IN IF i > Len(str2) THEN matrix
       ELSE AIService_matrixFrom(str1, str2,
                Append(matrix, AIService_rowFrom(str1, str2[i], matrix[i], <<i>>)))

AIService_calculateTextSimilarity(str1, str2) ==
    LET n == Len(str2)
        m == Len(str1)
    IN IF n = 0 THEN (IF m = 0 THEN Ratio(1, 1) ELSE Ratio(0, 1))
       ELSE IF m = 0 THEN Ratio(0, 1)
       ELSE LET matrix == AIService_matrixFrom(str1, str2, <<[j \in 1..(m + 1) |-> j - 1]>>)
                distance == matrix[n + 1][m + 1]
                maxLength == Max(Len(str1), Len(str2))
            IN Ratio(maxLength - distance, maxLength)

\* ----- ExpenseService.calculateTextSimilarity (expenseService.js)
\* matrix[i][j] from matrix[i-1][j], matrix[i][j-1], matrix[i-1][j-1] and the
\* two characters compared
ExpenseService_cell(up, left, diag, c1, c2) ==
    Min3(up + 1, left + 1, diag + (IF c1 = c2 THEN 0 ELSE 1))

\* the inner loop over j = Len(row): row holds matrix[i][0 .. j-1], prev is
\* matrix[i-1]
RECURSIVE ExpenseService_rowFrom(_, _, _, _)
ExpenseService_rowFrom(str1, ch, prev, row) ==
    LET j == Len(row)
    IN IF j > Len(str1) THEN row
       ELSE ExpenseService_rowFrom(str1, ch, prev,
                Append(row, ExpenseService_cell(prev[j + 1], row[j], prev[j], str1[j], ch)))

\* the outer loop over i = Len(matrix): matrix holds the rows 0 .. i-1
RECURSIVE ExpenseService_matrixFrom(_, _, _)
ExpenseService_matrixFrom(str1, str2, matrix) ==
    LET i == Len(matrix)
    IN IF i > Len(str2) THEN matrix
       ELSE ExpenseService_matrixFrom(str1, str2,
                Append(matrix, ExpenseService_rowFrom(str1, str2[i], matrix[i], <<i>>)))

ExpenseService_calculateTextSimilarity(str1, str2) ==
    LET n == Len(str2)
        m == Len(str1)
    IN IF n = 0 THEN (IF m = 0 THEN Ratio(1, 1) ELSE Ratio(0, 1))
       ELSE IF m = 0 THEN Ratio(0, 1)
       ELSE LET matrix == ExpenseService_matrixFrom(str1, str2, <<[j \in 1..(m + 1) |-> j - 1]>>)
                distance == matrix[n + 1][m + 1]
                maxLength == Max(Len(str1), Len(str2))
            IN Ratio(maxLength - distance, maxLength)

\* ----- SpecSimilarity: one call of both copies on a pair of strings
SimilarityAlphabet == {"a", "b"}

StringsUpTo(n) == UNION {[1..k -> SimilarityAlphabet] : k \in 0..n}

SimilarityCalls ==
    {[fn |-> "calculateTextSimilarity", str1 |-> a, str2 |-> b] :
        a \in StringsUpTo(MaxStrLen), b \in StringsUpTo(MaxStrLen)}

CalculateTextSimilarityCall ==
    /\ call.fn = "calculateTextSimilarity"
    /\ result = NoResult
    /\ result' = [ai |-> AIService_calculateTextSimilarity(call.str1, call.str2),
                  expense |-> ExpenseService_calculateTextSimilarity(call.str1,
                                                                   call.str2)]
    /\ CallFrame

SpecSimilarity == InitCalls(SimilarityCalls) /\ [][CalculateTextSimilarityCall]_vars

\* ----- AIService.detectSuspiciousExpenses
\* The window is what Expense.find(...).sort({date: -1}) returned: the active
\* expenses of the team since the cutoff, latest first.  An expense is its
\* amount, its date (in days) and its description; its _id is its position.
Abs(x) == IF x >= 0 THEN x ELSE -x

IsPotentialDuplicate_AtLeast(exp1, exp2) ==
    /\ 100 * Abs(exp1.amount - exp2.amount) < 1
    /\ LET timeDiff == Abs(exp1.date - exp2.date)
           descSimilarity == AIService_calculateTextSimilarity(
                                 ToLowerCase(exp1.description),
                                 ToLowerCase(exp2.description))
       IN timeDiff <= 7 /\ 10 * descSimilarity.num >= 7 * descSimilarity.den

\* the two tests of the duplicate scan on a pair
IsPotentialDuplicate(exp1, exp2) ==
    /\ 100 * Abs(exp1.amount - exp2.amount) < 1
    /\ LET timeDiff == Abs(exp1.date - exp2.date)
           descSimilarity == AIService_calculateTextSimilarity(
                                 ToLowerCase(exp1.description),
                                 ToLowerCase(exp2.description))
       IN timeDiff <= 7 /\ Exceeds(descSimilarity, 7, 10)

DuplicateFinding(exps, i, j) ==
    [type |-> "potential_duplicate", expenses |-> <<i, j>>,
     confidence |-> AIService_calculateTextSimilarity(
                        ToLowerCase(exps[i].description),
                        ToLowerCase(exps[j].description))]

\* the nested for loops, from the pair (i, j) on
RECURSIVE DuplicateScan(_, _, _, _)
DuplicateScan(exps, i, j, suspicious) ==
    IF i > Len(exps) THEN suspicious
    ELSE IF j > Len(exps) THEN DuplicateScan(exps, i + 1, i + 2, suspicious)
    ELSE DuplicateScan(exps, i, j + 1,
             IF IsPotentialDuplicate(exps[i], exps[j])
             THEN Append(suspicious, DuplicateFinding(exps, i, j))
             ELSE suspicious)

\* Array.prototype.sort((a, b) => a - b)
RECURSIVE InsertAscending(_, _)
InsertAscending(sorted, x) ==
    IF sorted = <<>> THEN <<x>>
    ELSE IF x < Head(sorted) THEN <<x>> \o sorted
    ELSE <<Head(sorted)>> \o InsertAscending(Tail(sorted), x)

RECURSIVE SortAscending(_)
SortAscending(amounts) ==
    IF amounts = <<>> THEN <<>>
    ELSE InsertAscending(SortAscending(SubSeq(amounts, 1, Len(amounts) - 1)),
                         amounts[Len(amounts)])

\* if (expenses.length > 5)
RunsOutlierCheck_FromFive(exps) == Len(exps) >= 5

RunsOutlierCheck(exps) == Len(exps) > 5

\* expense.amount > q3 + 1.5 * iqr, both sides doubled
IsOutlier(amount, sorted) ==
    LET q3 == sorted[((Len(sorted) * 75) \div 100) + 1]
        q1 == sorted[((Len(sorted) * 25) \div 100) + 1]
        iqr == q3 - q1
    IN 2 * amount > 2 * q3 + 3 * iqr

OutlierFinding(i) ==
    [type |-> "high_amount_outlier", expenses |-> <<i>>, confidence |-> Ratio(7, 10)]

\* expenses.forEach, from expense i on
RECURSIVE OutlierScan(_, _, _, _)
OutlierScan(exps, sorted, i, suspicious) ==
    IF i > Len(exps) THEN suspicious
    ELSE OutlierScan(exps, sorted, i + 1,
             IF IsOutlier(exps[i].amount, sorted)
             THEN Append(suspicious, OutlierFinding(i))
             ELSE suspicious)

\* Array.prototype.slice(start, end) for 0 <= start <= end
Slice_Unlimited(arr, start, end) == SubSeq(arr, start + 1, Len(arr))

Slice(arr, start, end) ==
    SubSeq(arr, start + 1, IF end <= Len(arr) THEN end ELSE Len(arr))

\* detected is the local array suspicious before the slice
DetectSuspiciousExpenses(exps) ==
    LET duplicates == DuplicateScan(exps, 1, 2, <<>>)
        amounts == SortAscending([i \in 1..Len(exps) |-> exps[i].amount])
        suspicious == IF RunsOutlierCheck(exps)
                      THEN OutlierScan(exps, amounts, 1, duplicates)
                      ELSE duplicates
    IN [totalExpensesChecked |-> Len(exps),
        suspiciousCount |-> Len(suspicious),
        suspicious |-> Slice(suspicious, 0, 10),
        detected |-> suspicious]

\* ----- SpecSuspicious: one call of detectSuspiciousExpenses on a window
TeamLunch == <<"T", "e", "a", "m", " ", "l", "u", "n", "c", "h">>

TeamLunchSpaced == <<"T", "e", "a", "m", " ", "L", "u", "n", "c", "h", " ">>

TeamMatch == <<"T", "e", "a", "m", " ", "m", "a", "t", "c", "h">>

Taxi == <<"T", "a", "x", "i">>

WindowExpense(amount, date, description) ==
    [amount |-> amount, date |-> date, description |-> description]

\* lunches two and seven days apart, a description at similarity 0.7 exactly,
\* and a large amount
SampleExpenses ==
    {WindowExpense(50, 9, TeamLunch), WindowExpense(50, 2, TeamLunch),
     WindowExpense(50, 2, TeamMatch), WindowExpense(50, 0, TeamLunchSpaced),
     WindowExpense(500, 0, TeamLunch)}

LatestFirst(exps) ==
    \A i \in 1..(Len(exps) - 1) : exps[i].date >= exps[i + 1].date

AmountsWindow(amounts) ==
    [i \in 1..Len(amounts) |-> WindowExpense(amounts[i], 0, Taxi)]

Windows ==
    {w \in UNION {[1..n -> SampleExpenses] : n \in 0..MaxWindow} : LatestFirst(w)}
    \cup {AmountsWindow(<<10, 12, 11, 13, 9, 500>>),
          AmountsWindow(<<10, 12, 11, 13, 9>>)}

SuspiciousCalls ==
    {[fn |-> "detectSuspiciousExpenses", expenses |-> w] : w \in Windows}

DetectSuspiciousExpensesCall ==
    /\ call.fn = "detectSuspiciousExpenses"
    /\ result = NoResult
    /\ result' = DetectSuspiciousExpenses(call.expenses)
    /\ CallFrame

SpecSuspicious == InitCalls(SuspiciousCalls) /\ [][DetectSuspiciousExpensesCall]_vars

\* ======================= BudgetService: trend =======================
RECURSIVE SumSeq(_)
SumSeq(seq) == IF seq = <<>> THEN 0 ELSE Head(seq) + SumSeq(Tail(seq))

\* ----- BudgetService.groupExpensesByDay: the total of every date key, the
\* entries sorted by date
GroupExpensesByDay(exps) ==
    LET dates == {exps[i].date : i \in 1..Len(exps)}
        nth(k) == CHOOSE d \in dates : Cardinality({x \in dates : x < d}) = k - 1
        total(d) == SumSeq([i \in 1..Len(exps) |->
                              IF exps[i].date = d THEN exps[i].amount ELSE 0])
    IN [k \in 1..Cardinality(dates) |-> [date |-> nth(k), amount |-> total(nth(k))]]

\* ----- BudgetService.calculateSpendingTrend
\* Math.floor(dailyTotals.length / 2)
HalfLength_RoundedUp(dailyTotals) == (Len(dailyTotals) + 1) \div 2

HalfLength(dailyTotals) == Len(dailyTotals) \div 2

\* The averages are s1 / l1 and s2 / l2; every comparison is made on the
\* numerators over the common denominator l1 * l2.
CalculateSpendingTrend(dailyTotals) ==
    IF Len(dailyTotals) < 3
    THEN [direction |-> "insufficient_data", strength |-> "0"]
    ELSE LET amounts == [k \in 1..Len(dailyTotals) |-> dailyTotals[k].amount]
             firstHalf == SubSeq(amounts, 1, HalfLength(dailyTotals))
             secondHalf == SubSeq(amounts, HalfLength(dailyTotals) + 1, Len(amounts))
             s1 == SumSeq(firstHalf)
             l1 == Len(firstHalf)
             s2 == SumSeq(secondHalf)
             l2 == Len(secondHalf)
             \* difference * l1 * l2
             difference == s2 * l1 - s1 * l2
             \* Math.max(firstHalfAvg, 1) * l1 * l2
             base == Max(s1 * l2, l1 * l2)
         IN IF 10 * Abs(difference) > s1 * l2
            THEN [direction |-> IF difference > 0 THEN "increasing" ELSE "decreasing",
                  strength |-> IF 100 * Abs(difference) > 50 * base THEN "high"
                               ELSE IF 100 * Abs(difference) > 20 * base THEN "medium"
                               ELSE "low"]
            ELSE [direction |-> "stable", strength |-> "low"]

\* ----- SpecTrend: the approved expenses of the last days, sorted by date as
\* calculateBudgetForecast finds them, grouped and then rated
DayExpenses == {<<10>>, <<11>>, <<13>>, <<50>>, <<5, 5>>}

RECURSIVE ExpensesOfDays(_, _)
ExpensesOfDays(days, d) ==
    IF d > Len(days) THEN <<>>
    ELSE [i \in 1..Len(days[d]) |-> [date |-> d, amount |-> days[d][i]]]
         \o ExpensesOfDays(days, d + 1)

TrendCalls ==
    {[fn |-> "calculateSpendingTrend", days |-> ds, expenses |-> ExpensesOfDays(ds, 1)] :
        ds \in UNION {[1..n -> DayExpenses] : n \in 0..MaxDays}}

CalculateSpendingTrendCall ==
    /\ call.fn = "calculateSpendingTrend"
    /\ result = NoResult
    /\ result' = [dailyTotals |-> GroupExpensesByDay(call.expenses),
                  trend |-> CalculateSpendingTrend(GroupExpensesByDay(call.expenses))]
    /\ CallFrame

SpecTrend == InitCalls(TrendCalls) /\ [][CalculateSpendingTrendCall]_vars

\* ======================= SpecLifecycle =======================
\* One expense of one team followed through the ExpenseService operations,
\* with the fields the approval workflow writes: approvedBy (the name in it)
\* and aiInsights (where the suggestion came from).
NewExpenseDocument(team, amount, status, approvedBy, aiInsights) ==
    [team |-> team, amount |-> amount, status |-> status, isActive |-> TRUE,
     approvedBy |-> approvedBy, aiInsights |-> aiInsights]

\* expenseSchema.methods.approve / reject
Approve(doc, approver) ==
    [doc EXCEPT !.status = "approved", !.approvedBy = approver]

Reject(doc, rejector) ==
    [doc EXCEPT !.status = "rejected", !.approvedBy = rejector]

\* the update documents a caller sends: a new amount, the protected keys at
\* the top level, a dotted path into a protected key, and the protected keys
\* inside $set
ExpenseUpdates ==
    AmountUpdates
    \cup {[plain |-> {Entry(k, 0, "forged")}, set |-> {}] :
            k \in {"approvedBy", "aiInsights", "approvedBy.name"}}
    \cup {[plain |-> {Entry("status", 0, "approved")}, set |-> {}],
          [plain |-> {}, set |-> {Entry("status", 0, "approved")}],
          [plain |-> {}, set |-> {Entry("aiInsights", 0, "forged")}]}

InitLifecycle ==
    /\ teams = [t \in Teams |-> IF t = FirstTeam THEN NewTeam(10, 0, NoFlags)
                                                 ELSE NoTeam]
    /\ expenses = <<>>
    /\ emailService = DefaultMailConfig
    /\ last = NoLast
    /\ phase = [t \in Teams |-> "none"]
    /\ feed = <<>>
    /\ pos = 0
    /\ outlog = <<>>
    /\ procs = IdleProcs
    /\ sentLog = [l \in Levels |-> 0]
    /\ call = NoCall
    /\ result = NoResult

\* what every operation of SpecLifecycle does besides its own effect: call
\* keeps the request
Request(fn, e, ok, tms2, exps2, checks) ==
    /\ teams' = tms2
    /\ expenses' = exps2
    /\ last' = [op |-> fn, team |-> FirstTeam, ok |-> ok, checks |-> checks,
                forecast |-> NoForecast]
    /\ call' = [fn |-> fn, expense |-> e]
    /\ UNCHANGED <<emailService, phase, feed, pos, outlog, procs, sentLog, result>>

\* createExpense: the document takes status, approvedBy and aiInsights from
\* expenseData (defaults pending and none); a description of more than 5
\* characters gets the category suggestion written into aiInsights
LifecycleCreate ==
    \E amount \in Amounts, status \in SuppliedStatuses,
       approvedBy \in {"none", "forged"}, longDescription \in BOOLEAN :
        /\ expenses = <<>>
        /\ LET doc == NewExpenseDocument(FirstTeam, amount, status, approvedBy,
                          IF longDescription THEN "suggested" ELSE "none")
           IN Request("createExpense", 1, TRUE, PostSave(teams, <<doc>>, 1),
                      <<doc>>, <<>>)

LifecycleUpdate ==
    \E e \in ExpenseIds(expenses), updateData \in ExpenseUpdates :
        LET found == expenses[e].isActive /\ expenses[e].status = "pending"
        IN Request("updateExpense", e, found, teams,
                   IF found
                   THEN [expenses EXCEPT ![e] = UpdateExpenseDoc(@, updateData)]
                   ELSE expenses,
                   <<>>)

LifecycleDelete ==
    \E e \in ExpenseIds(expenses) :
        LET found == expenses[e].isActive
        IN Request("deleteExpense", e, found, teams,
                   IF found THEN [expenses EXCEPT ![e].isActive = FALSE] ELSE expenses,
                   <<>>)

LifecycleApprove ==
    \E e \in ExpenseIds(expenses), mo \in MailOutcomes :
        LET found == expenses[e].isActive /\ expenses[e].status = "pending"
            exps2 == [expenses EXCEPT ![e] = Approve(@, "approver")]
            c == CheckBudgetAlerts(PostSave(teams, exps2, e), exps2, emailService,
                                   expenses[e].team, mo, "none")
        IN IF found
           THEN Request("approveExpense", e, TRUE, c.teams, exps2, <<c.res>>)
           ELSE Request("approveExpense", e, FALSE, teams, expenses, <<>>)

LifecycleReject ==
    \E e \in ExpenseIds(expenses) :
        LET found == expenses[e].isActive /\ expenses[e].status = "pending"
            exps2 == [expenses EXCEPT ![e] = Reject(@, "rejector")]
        IN IF found
           THEN Request("rejectExpense", e, TRUE, PostSave(teams, exps2, e), exps2, <<>>)
           ELSE Request("rejectExpense", e, FALSE, teams, expenses, <<>>)

NextLifecycle ==
    \/ LifecycleCreate
    \/ LifecycleUpdate
    \/ LifecycleDelete
    \/ LifecycleApprove
    \/ LifecycleReject

SpecLifecycle == InitLifecycle /\ [][NextLifecycle]_vars

\* ======================= Team.budgetUtilization in doubles =======================
\* A positive double is its significand, a sequence of binary digits starting
\* with 1, and the number of those digits that stand after the binary point
\* (scale): the value is ValueOf(bits) / 2^scale.
Precision == 53

\* the binary digits of a natural number, the most significant first
RECURSIVE BitsOf(_)
BitsOf(n) == IF n = 0 THEN <<>> ELSE Append(BitsOf(n \div 2), n % 2)

RECURSIVE ValueOf(_)
ValueOf(bits) ==
    IF bits = <<>> THEN 0
    ELSE 2 * ValueOf(SubSeq(bits, 1, Len(bits) - 1)) + bits[Len(bits)]

RECURSIVE Increment(_)
Increment(bits) ==
    IF bits = <<>> THEN <<1>>
    ELSE IF bits[Len(bits)] = 0 THEN [bits EXCEPT ![Len(bits)] = 1]
    ELSE Append(Increment(SubSeq(bits, 1, Len(bits) - 1)), 0)

\* round to nearest, ties to even: digits beyond Precision are dropped, sticky
\* tells that the exact value has nonzero digits beyond those given
RoundToPrecision(bits, scale, sticky) ==
    IF Len(bits) <= Precision THEN [bits |-> bits, scale |-> scale]
    ELSE LET kept == SubSeq(bits, 1, Precision)
             dropped == Len(bits) - Precision
             guard == bits[Precision + 1]
             rest == sticky \/ \E i \in (Precision + 2)..Len(bits) : bits[i] = 1
             up == guard = 1 /\ (rest \/ kept[Precision] = 1)
             raised == Increment(kept)
         IN IF ~up THEN [bits |-> kept, scale |-> scale - dropped]
            ELSE IF Len(raised) > Precision
            THEN [bits |-> SubSeq(raised, 1, Precision), scale |-> scale - dropped - 1]
            ELSE [bits |-> raised, scale |-> scale - dropped]

\* long division r / b continued digit by digit behind the digits in bits,
\* until one digit more than the precision is there
RECURSIVE DivideFrom(_, _, _, _)
DivideFrom(r, b, bits, scale) ==
    IF Len(bits) > Precision
    THEN RoundToPrecision(bits, scale, r # 0)
    ELSE LET d == IF 2 * r >= b THEN 1 ELSE 0
         IN DivideFrom(2 * r - d * b, b,
                       IF bits = <<>> /\ d = 0 THEN bits ELSE Append(bits, d),
                       scale + 1)

\* a / b for positive integers a and b
Divide(a, b) == DivideFrom(a % b, b, BitsOf(a \div b), 0)

\* x * n for a double x and a small positive integer n, from the last digit on
RECURSIVE TimesFrom(_, _, _, _, _)
TimesFrom(bits, n, i, carry, out) ==
    IF i = 0 THEN BitsOf(carry) \o out
    ELSE TimesFrom(bits, n, i - 1, (bits[i] * n + carry) \div 2,
                   <<(bits[i] * n + carry) % 2>> \o out)

Times(x, n) ==
    RoundToPrecision(TimesFrom(x.bits, n, Len(x.bits), 0, <<>>), x.scale, FALSE)

\* Math.round of a positive double below 2^31: the nearest integer, halves up
MathRound(x) ==
    LET whole == Len(x.bits) - x.scale
    IN IF whole < 0 THEN 0
       ELSE IF whole >= Len(x.bits) THEN ValueOf(x.bits \o [i \in 1..(-x.scale) |-> 0])
       ELSE ValueOf(SubSeq(x.bits, 1, whole)) + x.bits[whole + 1]

\* virtual budgetUtilization:
\* this.budget > 0 ? Math.round((this.totalSpent / this.budget) * 100) : 0
budgetUtilization(team) ==
    IF team.budget > 0 /\ team.totalSpent > 0
    THEN MathRound(Times(Divide(team.totalSpent, team.budget), 100))
    ELSE 0

\* ----- SpecUtilization: the start of one checkBudgetAlerts evaluation of a
\* team: updateTotalSpent stores the approved total, then the virtual is read
MaxSpent == 210

UtilizationBudgets == {0, 10, 40, 100, 200}

UtilizationCalls ==
    {[fn |-> "checkBudgetAlerts",
      team |-> NewTeam(b, s, NoFlags), approved |-> a] :
        b \in UtilizationBudgets, s \in {0, 7}, a \in 0..MaxSpent}

ReadUtilizationCall ==
    /\ call.fn = "checkBudgetAlerts"
    /\ result = NoResult
    /\ LET team == [call.team EXCEPT !.totalSpent = call.approved]
       IN result' = [totalSpent |-> team.totalSpent,
                     budgetUtilization |-> budgetUtilization(team)]
    /\ CallFrame

SpecUtilization == InitCalls(UtilizationCalls) /\ [][ReadUtilizationCall]_vars

\* ======================= EmailService: one send =======================
\* the providers sendBudgetAlert calls, in the order of the calls: Brevo when
\* it is configured, sendWithBackup when Brevo is not configured or threw
SendAttempts(cfg, mo) ==
    IF ~cfg.isBrevoConfigured /\ ~cfg.isBackupConfigured THEN <<>>
    ELSE IF cfg.isBrevoConfigured
    THEN IF mo.brevoOK THEN <<"brevo">> ELSE <<"brevo", "backup">>
    ELSE <<"backup">>

\* the alert written to the console: nothing configured, or the catch block
ConsoleLogged(cfg, mo) ==
    \/ ~cfg.isBrevoConfigured /\ ~cfg.isBackupConfigured
    \/ ~SendBudgetAlert(cfg, mo).success

\* ----- SpecMail: one call of sendBudgetAlert on every configuration the
\* constructor can leave and everything the providers can do
SendCalls ==
    {[fn |-> "sendBudgetAlert", alertType |-> l, budgetUtilization |-> u,
      cfg |-> [isBrevoConfigured |-> b, isBackupConfigured |-> k],
      mo |-> [brevoOK |-> x, backupOK |-> y]] :
        l \in Levels, u \in FeedUtils, b \in BOOLEAN, k \in BOOLEAN,
        x \in BOOLEAN, y \in BOOLEAN}

SendBudgetAlertCall ==
    /\ call.fn = "sendBudgetAlert"
    /\ result = NoResult
    /\ result' = [mail |-> SendBudgetAlert(call.cfg, call.mo),
                  attempts |-> SendAttempts(call.cfg, call.mo),
                  consoleLog |-> ConsoleLogged(call.cfg, call.mo)]
    /\ CallFrame

SpecMail == InitCalls(SendCalls) /\ [][SendBudgetAlertCall]_vars

\* ======================= BudgetService: forecast arithmetic =======================
\* calculateBudgetForecast from the recent expenses on: the daily average and
\* the projection, as exact fractions.  daysWithData = max(1, length / 2) is
\* Max(2, length) / 2.
ForecastProjection(recentExpenses, totalSpent, forecastPeriodDays) ==
    IF recentExpenses = <<>>
    THEN [hasData |-> FALSE,
          avgDailySpending |-> Ratio(0, 1),
          projectedSpending |-> Ratio(0, 1),
          projectedTotal |-> Ratio(totalSpent, 1)]
    ELSE LET totalRecentSpending ==
                 SumSeq([i \in 1..Len(recentExpenses) |-> recentExpenses[i].amount])
             den == Max(2, Len(recentExpenses))
         IN [hasData |-> TRUE,
             avgDailySpending |-> Ratio(2 * totalRecentSpending, den),
             projectedSpending |-> Ratio(2 * totalRecentSpending * forecastPeriodDays, den),
             projectedTotal |-> Ratio(totalSpent * den
                                      + 2 * totalRecentSpending * forecastPeriodDays, den)]

\* ----- SpecForecast: the recent approved expenses of a team, sorted by date,
\* and the total the team has stored
StoredTotals == {0, 100}

ForecastCalls ==
    {[fn |-> "calculateBudgetForecast", days |-> ds,
      expenses |-> ExpensesOfDays(ds, 1), totalSpent |-> s,
      forecastPeriodDays |-> p] :
        ds \in UNION {[1..n -> DayExpenses] : n \in 0..MaxDays},
        s \in StoredTotals, p \in ForecastPeriods}

ForecastProjectionCall ==
    /\ call.fn = "calculateBudgetForecast"
    /\ result = NoResult
    /\ result' = ForecastProjection(call.expenses, call.totalSpent,
                                    call.forecastPeriodDays)
    /\ CallFrame

SpecForecast == InitCalls(ForecastCalls) /\ [][ForecastProjectionCall]_vars

\* ======================= BudgetService: batch result =======================
\* the loop of checkAllTeamsBudgetAlerts over the found teams in the order
\* Team.find returned them
RECURSIVE CheckTeamsInOrder(_, _, _, _, _, _, _)
CheckTeamsInOrder(order, tms, exps, cfg, mo, ph, results) ==
    IF order = <<>> THEN [teams |-> tms, results |-> results]
    ELSE LET t == Head(order)
             c == CheckBudgetAlerts(tms, exps, cfg, t, mo[t], ph[t])
         IN CheckTeamsInOrder(Tail(order), c.teams, exps, cfg, mo, ph,
                              Append(results, c.res))

\* the orders in which Team.find can return a set of teams
Orderings(found) ==
    {o \in [1..Cardinality(found) -> found] :
        \A i, j \in 1..Cardinality(found) : i # j => o[i] # o[j]}

\* ----- SpecOrder: the drawn teams of SpecBatch, checkAllTeamsBudgetAlerts
\* with the found teams in any order; call keeps what the providers did and
\* the order, result the counts returned.  One call from every drawn state:
\* the teams a call leaves are again among the drawn ones.
CheckAllTeamsOrdered ==
    \E mo \in [Teams -> MailOutcomes],
       order \in Orderings({t \in Teams : teams[t].exists /\ teams[t].isActive}) :
      /\ result = NoResult
      /\ LET c == CheckTeamsInOrder(order, teams, expenses, emailService, mo,
                                     phase, <<>>)
         IN /\ teams' = c.teams
            /\ last' = [op |-> "checkAllTeamsBudgetAlerts", team |-> 0, ok |-> TRUE,
                        checks |-> c.results, forecast |-> NoForecast]
            /\ call' = [fn |-> "checkAllTeamsBudgetAlerts", mo |-> mo, order |-> order]
            /\ result' = [fn |-> "checkAllTeamsBudgetAlerts",
                          teamsChecked |-> Len(order),
                          totalAlerts |-> TotalAlerts(c.results)]
            /\ UNCHANGED <<expenses, emailService, phase, feed, pos, outlog, procs,
                           sentLog>>

SpecOrder == InitBatch /\ [][CheckAllTeamsOrdered]_vars

\* ======================= SpecCreate =======================
\* One createExpense call, split at its awaits: the first save, the category
\* suggestion with its save, the duplicate check with its save, the return.
\* result is the call in progress: where it stands (pc), the document in
\* memory, its id once saved, and what has happened so far (events); the
\* expenses collection holds what the saves wrote.
CreatedDocument(expenseData) ==
    [team |-> FirstTeam, amount |-> expenseData.amount,
     status |-> expenseData.status, category |-> expenseData.category,
     isActive |-> TRUE,
     aiInsights |-> [suggestedCategory |-> "none", duplicateCheck |-> FALSE]]

CreateCalls ==
    {[fn |-> "createExpense", amount |-> a, status |-> st, category |-> c,
      longDescription |-> l] :
        a \in Amounts, st \in SuppliedStatuses, c \in {"food", "other"},
        l \in BOOLEAN}

InitCreate ==
    /\ teams = [t \in Teams |-> IF t = FirstTeam THEN NewTeam(10, 0, NoFlags)
                                                 ELSE NoTeam]
    /\ expenses = <<>>
    /\ emailService = DefaultMailConfig
    /\ last = NoLast
    /\ phase = [t \in Teams |-> "none"]
    /\ feed = <<>>
    /\ pos = 0
    /\ outlog = <<>>
    /\ procs = IdleProcs
    /\ sentLog = [l \in Levels |-> 0]
    /\ call \in CreateCalls
    /\ result = NoResult

\* the call stands at pc
At(pc) == result # NoResult /\ result.pc = pc

CreateFrame == UNCHANGED <<emailService, last, phase, feed, pos, outlog, procs,
                           sentLog, call>>

\* expense.save() of the document in memory: the collection takes it and the
\* post-save hook runs
Saved(doc, id) ==
    LET exps2 == IF id > Len(expenses) THEN Append(expenses, doc)
                 ELSE [expenses EXCEPT ![id] = doc]
    IN /\ expenses' = exps2
       /\ teams' = PostSave(teams, exps2, id)

\* const expense = new Expense(expenseData); await expense.save();
CreateSave ==
    \E saveOK \in BOOLEAN :
        /\ call.fn = "createExpense"
        /\ result = NoResult
        /\ IF saveOK
           THEN /\ Saved(CreatedDocument(call), Len(expenses) + 1)
                /\ result' = [pc |-> "saved", expense |-> CreatedDocument(call),
                              id |-> Len(expenses) + 1, events |-> <<"save">>]
           ELSE /\ UNCHANGED <<teams, expenses>>
                /\ result' = [pc |-> "rejected", expense |-> CreatedDocument(call),
                              id |-> 0, events |-> <<"save threw">>]
        /\ CreateFrame

\* the first try block: suggestCategory for a description of more than 5
\* characters, aiInsights set from a truthy suggestion and saved; every throw
\* is caught
CreateSuggest_Unguarded ==
    \E outcome \in {"returns", "throws", "save throws"} :
        /\ At("saved")
        /\ LET expense == [result.expense EXCEPT
                              !.aiInsights.suggestedCategory = "other"]
               next(doc, event) ==
                   result' = [result EXCEPT !.pc = "suggested", !.expense = doc,
                                            !.events = Append(@, event)]
           IN IF ~call.longDescription
              THEN next(result.expense, "suggestion skipped")
                   /\ UNCHANGED <<teams, expenses>>
              ELSE IF outcome = "throws"
              THEN /\ result' = [result EXCEPT !.pc = "rejected",
                                               !.events = Append(@, "suggestion threw")]
                   /\ UNCHANGED <<teams, expenses>>
              ELSE IF outcome = "save throws"
              THEN next(expense, "suggestion save threw")
                   /\ UNCHANGED <<teams, expenses>>
              ELSE next(expense, "suggestion saved") /\ Saved(expense, result.id)
        /\ CreateFrame

CreateSuggest ==
    \E outcome \in {"returns", "throws", "save throws"} :
        /\ At("saved")
        /\ LET expense == [result.expense EXCEPT
                              !.aiInsights.suggestedCategory = "other"]
               next(doc, event) ==
                   result' = [result EXCEPT !.pc = "suggested", !.expense = doc,
                                            !.events = Append(@, event)]
           IN IF ~call.longDescription
              THEN next(result.expense, "suggestion skipped")
                   /\ UNCHANGED <<teams, expenses>>
              ELSE IF outcome = "throws"
              THEN next(result.expense, "suggestion threw")
                   /\ UNCHANGED <<teams, expenses>>
              ELSE IF outcome = "save throws"
              THEN next(expense, "suggestion save threw")
                   /\ UNCHANGED <<teams, expenses>>
              ELSE next(expense, "suggestion saved") /\ Saved(expense, result.id)
        /\ CreateFrame

\* the second try block: checkForDuplicates, aiInsights.duplicateCheck set and
\* saved when a duplicate was found; every throw is caught
CreateDuplicateCheck ==
    \E outcome \in {"none", "duplicate", "throws", "save throws"} :
        /\ At("suggested")
        /\ LET expense == [result.expense EXCEPT !.aiInsights.duplicateCheck = TRUE]
               next(doc, event) ==
                   result' = [result EXCEPT !.pc = "checked", !.expense = doc,
                                            !.events = Append(@, event)]
           IN CASE outcome = "none"
                     -> next(result.expense, "no duplicate")
                        /\ UNCHANGED <<teams, expenses>>
                [] outcome = "throws"
                     -> next(result.expense, "duplicate check threw")
                        /\ UNCHANGED <<teams, expenses>>
                [] outcome = "save throws"
                     -> next(expense, "duplicate save threw")
                        /\ UNCHANGED <<teams, expenses>>
                [] outcome = "duplicate"
                     -> next(expense, "duplicate saved") /\ Saved(expense, result.id)
        /\ CreateFrame

\* return expense.populate('team', 'name budget')
CreateReturn ==
    \E populateOK \in BOOLEAN :
        /\ At("checked")
        /\ result' = [result EXCEPT
                         !.pc = IF populateOK THEN "returned" ELSE "rejected",
                         !.events = Append(@, IF populateOK THEN "return"
                                                            ELSE "populate threw")]
        /\ UNCHANGED <<teams, expenses>>
        /\ CreateFrame

NextCreate ==
    \/ CreateSave
    \/ CreateSuggest
    \/ CreateDuplicateCheck
    \/ CreateReturn

SpecCreate == InitCreate /\ [][NextCreate]_vars

\* ======================= SpecEval =======================
\* One checkBudgetAlerts call for the first team, split at its awaits as in
\* SpecConc, with saves that can fail.  result is the call in progress: where
\* it stands (pc), the document in memory (doc), the alerts array, the calls
\* made so far (events) and, at the end, what the call returned.
InitEval ==
    \E total \in ConcTotals, alertsSent \in FlagStates, isActive \in BOOLEAN,
       b \in BOOLEAN, k \in BOOLEAN :
        /\ teams = [t \in Teams |-> IF t = FirstTeam
                                    THEN [NewTeam(10, 0, alertsSent)
                                             EXCEPT !.isActive = isActive]
                                    ELSE NoTeam]
        /\ expenses = <<NewExpense(FirstTeam, total, "approved")>>
        /\ emailService = [isBrevoConfigured |-> b, isBackupConfigured |-> k]
        /\ last = NoLast
        /\ phase = [t \in Teams |-> "none"]
        /\ feed = <<>>
        /\ pos = 0
        /\ outlog = <<>>
        /\ procs = IdleProcs
        /\ sentLog = [l \in Levels |-> 0]
        /\ call = [fn |-> "checkBudgetAlerts", team |-> FirstTeam]
        /\ result = NoResult

EvalFrame == UNCHANGED <<expenses, emailService, last, phase, feed, pos, outlog,
                         procs, sentLog, call>>

EvalEvent(op, level) == [op |-> op, level |-> level]

NotReturned == [returned |-> FALSE, success |-> FALSE, threw |-> FALSE]

\* await Team.findById(teamId); a missing or inactive team returns at once
EvalLoad ==
    /\ call.fn = "checkBudgetAlerts"
    /\ result = NoResult
    /\ result' = [pc |-> IF teams[FirstTeam].exists /\ teams[FirstTeam].isActive
                          THEN "loaded" ELSE "returned",
                  doc |-> teams[FirstTeam], level |-> "none",
                  alerts |-> <<>>, events |-> <<>>,
                  out |-> IF teams[FirstTeam].exists /\ teams[FirstTeam].isActive
                          THEN NotReturned
                          ELSE [returned |-> TRUE, success |-> FALSE,
                                threw |-> FALSE]]
    /\ UNCHANGED teams
    /\ EvalFrame

\* await team.updateTotalSpent(): aggregate and save; then the threshold tests
\* up to the call of sendBudgetAlert or, without one, to the reset before the
\* final save.  A save that throws ends the call in the outer catch.
EvalUpdateTotal ==
    \E saveOK \in BOOLEAN :
        /\ At("loaded")
        /\ LET doc == UpdateTotalSpent(result.doc, expenses, FirstTeam)
               u == BudgetUtilization(doc)
               level == AlertLevel(u, doc.alertsSent)
           IN IF ~saveOK
              THEN /\ result' = [result EXCEPT
                                    !.pc = "returned",
                                    !.events = Append(@, EvalEvent("save threw", "none")),
                                    !.out = [returned |-> TRUE, success |-> FALSE,
                                             threw |-> FALSE]]
                   /\ UNCHANGED teams
              ELSE /\ teams' = [teams EXCEPT ![FirstTeam].totalSpent = doc.totalSpent]
                   /\ IF level # "none"
                      THEN result' = [result EXCEPT
                                         !.pc = "sending", !.doc = doc, !.level = level,
                                         !.events = Append(@, EvalEvent("send", level))]
                      ELSE result' = [result EXCEPT
                                         !.pc = "saving",
                                         !.doc = [doc EXCEPT !.alertsSent =
                                                    FlagsAfterReset(doc.alertsSent, u)]]
        /\ EvalFrame

\* await emailService.sendBudgetAlert(...) returns; flag set, alert pushed,
\* reset test
EvalSent ==
    \E mo \in MailOutcomes :
        /\ At("sending")
        /\ LET doc == result.doc
               mail == SendBudgetAlert(emailService, mo)
               flags == FlagsAfterReset(
                            FlagsAfterSend(doc.alertsSent, result.level, mail),
                            BudgetUtilization(doc))
           IN result' = [result EXCEPT
                            !.pc = "saving",
                            !.doc = [doc EXCEPT !.alertsSent = flags],
                            !.alerts = IF mail.rejected THEN @
                                       ELSE Append(@, result.level)]
        /\ UNCHANGED teams
        /\ EvalFrame

\* await team.save(), then return { success: true, ... }; a save that throws
\* is caught by the outer catch: return { success: false, message }
EvalSave_ThrowsOnFailure ==
    \E saveOK \in BOOLEAN :
        /\ At("saving")
        /\ IF saveOK
           THEN /\ teams' = [teams EXCEPT ![FirstTeam].alertsSent =
                                              result.doc.alertsSent]
                /\ result' = [result EXCEPT
                                 !.pc = "returned",
                                 !.events = Append(@, EvalEvent("save", result.level)),
                                 !.out = [returned |-> TRUE, success |-> TRUE,
                                          threw |-> FALSE]]
           ELSE /\ UNCHANGED teams
                /\ result' = [result EXCEPT
                                 !.pc = "returned",
                                 !.events = Append(@, EvalEvent("save threw", result.level)),
                                 !.out = [returned |-> FALSE, success |-> FALSE,
                                          threw |-> TRUE]]
        /\ EvalFrame

EvalSave ==
    \E saveOK \in BOOLEAN :
        /\ At("saving")
        /\ IF saveOK
           THEN /\ teams' = [teams EXCEPT ![FirstTeam].alertsSent =
                                              result.doc.alertsSent]
                /\ result' = [result EXCEPT
                                 !.pc = "returned",
                                 !.events = Append(@, EvalEvent("save", result.level)),
                                 !.out = [returned |-> TRUE, success |-> TRUE,
                                          threw |-> FALSE]]
           ELSE /\ UNCHANGED teams
                /\ result' = [result EXCEPT
                                 !.pc = "returned",
                                 !.events = Append(@, EvalEvent("save threw", result.level)),
                                 !.out = [returned |-> TRUE, success |-> FALSE,
                                          threw |-> FALSE]]
        /\ EvalFrame

NextEval ==
    \/ EvalLoad
    \/ EvalUpdateTotal
    \/ EvalSent
    \/ EvalSave

SpecEval == InitEval /\ [][NextEval]_vars

\* ======================= SpecTrack =======================
\* HttpStateService of the front end: the loading signal and the pending
\* counter under overlapping track() calls.  result is the service and the
\* calls made on it: tracked[i] is the i-th call, with the state of the promise
\* it was given (promise) and whether its finally block has run (finished);
\* microtasks is the queue of continuations of `await promise`, one appended
\* when a promise settles, run first in first out.
MaxTracked == 3

NewHttpState ==
    [fn |-> "track", pending |-> 0, loading |-> FALSE, tracked |-> <<>>,
     microtasks |-> <<>>]

InitTrack ==
    /\ teams = [t \in Teams |-> NoTeam]
    /\ expenses = <<>>
    /\ emailService = DefaultMailConfig
    /\ last = NoLast
    /\ phase = [t \in Teams |-> "none"]
    /\ feed = <<>>
    /\ pos = 0
    /\ outlog = <<>>
    /\ procs = IdleProcs
    /\ sentLog = [l \in Levels |-> 0]
    /\ call = [fn |-> "track"]
    /\ result = NewHttpState

TrackFrame == UNCHANGED <<teams, expenses, emailService, last, phase, feed, pos,
                          outlog, procs, sentLog, call>>

PromiseStates == {"pending", "fulfilled", "rejected"}

\* this.pending++; if (this.pending === 1) this.loading.set(true);
TrackEnter(st) ==
    [st EXCEPT !.pending = @ + 1,
               !.loading = IF st.pending + 1 = 1 THEN TRUE ELSE @]

\* finally { this.pending--; if (this.pending <= 0) { this.pending = 0;
\*           this.loading.set(false); } }
TrackFinally_ClearsAlways(st) ==
    [st EXCEPT !.pending = IF st.pending - 1 <= 0 THEN 0 ELSE st.pending - 1,
               !.loading = FALSE]

TrackFinally(st) ==
    [st EXCEPT !.pending = IF st.pending - 1 <= 0 THEN 0 ELSE st.pending - 1,
               !.loading = IF st.pending - 1 <= 0 THEN FALSE ELSE @]

\* track(promise) up to `await promise`; the promise handed in is pending or
\* already settled, and the continuation of a settled one is queued at once
Track ==
    \E promise \in PromiseStates :
        /\ Len(result.tracked) < MaxTracked
        /\ LET st == TrackEnter(result)
               i == Len(result.tracked) + 1
           IN result' = [st EXCEPT
                            !.tracked = Append(@, [promise |-> promise,
                                                   finished |-> FALSE]),
                            !.microtasks = IF promise = "pending" THEN @
                                           ELSE Append(@, i)]
        /\ TrackFrame

\* a tracked promise resolves or rejects: the continuation is queued
Settle ==
    \E i \in 1..Len(result.tracked), outcome \in PromiseStates \ {"pending"} :
        /\ result.tracked[i].promise = "pending"
        /\ result' = [result EXCEPT !.tracked[i].promise = outcome,
                                    !.microtasks = Append(@, i)]
        /\ TrackFrame

\* the continuation of `await promise` runs: the finally block, then the
\* value is returned or the rejection rethrown
Resume ==
    /\ result.microtasks # <<>>
    /\ LET i == Head(result.microtasks)
           st == TrackFinally(result)
       IN result' = [st EXCEPT !.tracked[i].finished = TRUE,
                               !.microtasks = Tail(@)]
    /\ TrackFrame

NextTrack ==
    \/ Track
    \/ Settle
    \/ Resume

SpecTrack == InitTrack /\ [][NextTrack]_vars

\* ======================= properties =======================
RECURSIVE CountAlerts(_, _)
CountAlerts(log, n) ==
    IF n = 0 THEN 0 ELSE Len(log[n].alerts) + CountAlerts(log, n - 1)

SentLevels(r) == {r.sends[k].level : k \in 1..Len(r.sends)}

\* the first n utilizations of the feed are one value
Held(n) == \A i \in 1..n : feed[i] = feed[1]

\* C1 (SpecFeed): from flags {false,false}, N >= 1 successive evaluations at one
\* utilization at or above the warning threshold emit exactly one alert in
\* total, and that one on the first evaluation.
C1_OneAlertWhileHeld ==
    \A n \in 1..pos :
        (Held(n) /\ feed[1] >= WARNING_THRESHOLD)
            => /\ CountAlerts(outlog, n) = 1
               /\ Len(outlog[1].alerts) = 1

\* C2 (SpecFeed): with thresholds 80 / 100 and flags {false,false} the
\* utilizations 85, 90, 100, 70, 90 give warning, nothing, critical, nothing
\* (both flags cleared), warning, and no other event.
HysteresisFeed == <<85, 90, 100, 70, 90>>

HysteresisFed == pos >= Len(HysteresisFeed)
                 /\ SubSeq(feed, 1, Len(HysteresisFeed)) = HysteresisFeed

C2_HysteresisSequence ==
    HysteresisFed
        => /\ [i \in 1..Len(HysteresisFeed) |-> outlog[i].alerts]
                = << <<"warning">>, <<>>, <<"critical">>, <<>>, <<"warning">> >>
           /\ \A i \in 1..Len(HysteresisFeed) :
                  SentLevels(outlog[i]) = {outlog[i].alerts[k] :
                                             k \in 1..Len(outlog[i].alerts)}
           /\ outlog[4].after = NoFlags

C2_Witness ==
    HysteresisFed /\ outlog[Len(HysteresisFeed)].alerts = <<"warning">>

\* C3 (SpecConc): of the concurrent evaluations of one team at most one sends
\* the alert of a level.
C3_AtMostOneSendPerLevel ==
    \A l \in Levels : sentLog[l] <= 1

\* C4 (Spec): one evaluation emits at most one event; at utilization >=
\* critical with the critical flag clear the event is critical, whatever the
\* warning flag, and only the critical flag is set.
C4_CriticalPriority ==
    \A i \in 1..Len(last.checks) :
        LET r == last.checks[i]
        IN /\ Len(r.alerts) <= 1
           /\ Len(r.sends) <= 1
           /\ (r.found /\ r.utilization >= CRITICAL_THRESHOLD /\ ~r.before.critical)
                => /\ r.alerts = <<"critical">>
                   /\ SentLevels(r) = {"critical"}
                   /\ r.after = [r.before EXCEPT !.critical = TRUE]
                   /\ teams[r.team].alertsSent = r.after

C4_Witness ==
    \E i \in 1..Len(last.checks) :
        /\ last.checks[i].found
        /\ last.checks[i].utilization >= CRITICAL_THRESHOLD
        /\ last.checks[i].before = NoFlags
        /\ last.checks[i].alerts = <<"critical">>
        /\ teams[last.checks[i].team].alertsSent
              = [warning |-> FALSE, critical |-> TRUE]

\* C5 (Spec): a team alerted at warning level whose utilization dropped below
\* the warning threshold gets a new alert at the evaluation that finds it at
\* or above the threshold again (a warning below the critical threshold).
C5_RecrossingAlerts ==
    \A i \in 1..Len(last.checks) :
        LET r == last.checks[i]
        IN r.recross
             => /\ r.alerts # <<>>
                /\ r.utilization < CRITICAL_THRESHOLD => r.alerts = <<"warning">>

\* C6 (Spec): the critical flag of a team becomes true only in a step in which
\* checkBudgetAlerts evaluated the team at utilization >= critical.
CriticalRaised(t) ==
    teams'[t].alertsSent.critical /\ ~teams[t].alertsSent.critical

C6_CriticalOnlyByEvaluation ==
    [][\A t \in Teams :
          CriticalRaised(t)
            => \E i \in 1..Len(last'.checks) :
                  /\ last'.checks[i].team = t
                  /\ last'.checks[i].found
                  /\ last'.checks[i].utilization >= CRITICAL_THRESHOLD]_vars

\* C7 (SpecFeed): when the delivery of an alert fails, the evaluation still
\* succeeds, records the alert and persists the flag of its level, and the
\* following evaluations at the same utilization do not send that level again.
FailedSend(i, l) ==
    \E k \in 1..Len(outlog[i].sends) :
        outlog[i].sends[k].level = l /\ ~outlog[i].sends[k].delivered

HeldBetween(i, j) == \A m \in i..j : feed[m] = feed[i]

C7_FailedDeliveryKeepsFlag ==
    \A i \in 1..pos, l \in Levels :
        FailedSend(i, l)
            => /\ outlog[i].success
               /\ outlog[i].alerts = <<l>>
               /\ outlog[i].after[l]
               /\ (i = pos => teams[FirstTeam].alertsSent[l])
               /\ \A j \in (i + 1)..pos :
                      HeldBetween(i, j) => l \notin SentLevels(outlog[j])

C7_Witness ==
    \E i \in 1..pos, l \in Levels :
        /\ FailedSend(i, l)
        /\ i + 1 <= pos
        /\ HeldBetween(i, i + 1)
        /\ outlog[i + 1].before[l]

\* C8 (SpecBatch): checkBudgetAlerts of a missing or inactive team returns
\* success false, sends nothing and changes no team; checkAllTeamsBudgetAlerts
\* returns one successful result for every active team, in order, none for
\* the others, and leaves the others unchanged.
ActiveTeams == {t \in Teams : teams[t].exists /\ teams[t].isActive}

BatchResultsComplete ==
    last.op = "checkAllTeamsBudgetAlerts"
        => /\ {last.checks[i].team : i \in 1..Len(last.checks)} = ActiveTeams
           /\ Len(last.checks) = Cardinality(ActiveTeams)
           /\ \A i \in 1..Len(last.checks) :
                  /\ last.checks[i].found
                  /\ last.checks[i].success
                  /\ \A j \in 1..Len(last.checks) :
                         i < j => last.checks[i].team < last.checks[j].team

C8_MissingTeamIsStructuredFailure ==
    [][/\ (last'.op = "checkBudgetAlerts"
             /\ ~(teams[last'.team].exists /\ teams[last'.team].isActive))
            => /\ ~last'.ok
               /\ Len(last'.checks) = 1
               /\ ~last'.checks[1].success
               /\ last'.checks[1].sends = <<>>
               /\ last'.checks[1].alerts = <<>>
               /\ teams' = teams
       /\ BatchResultsComplete'
       /\ last'.op = "checkAllTeamsBudgetAlerts"
            => \A t \in Teams \ ActiveTeams : teams'[t] = teams[t]]_vars

C8_Witness ==
    /\ last.op = "checkBudgetAlerts"
    /\ teams[last.team].exists
    /\ ~teams[last.team].isActive
    /\ ~last.ok
    /\ ActiveTeams # {}

\* C9 (SpecBatch): for a team whose budget is zero checkBudgetAlerts and
\* calculateBudgetForecast return success false.
C9_ZeroBudgetIsFailure ==
    (/\ last.op \in {"checkBudgetAlerts", "calculateBudgetForecast"}
     /\ teams[last.team].exists
     /\ teams[last.team].isActive
     /\ teams[last.team].budget = 0)
        => ~last.ok

\* C10 (Spec): after every completed operation the stored totalSpent of a
\* team is the sum of its approved active expenses.
TotalOps == {"createExpense", "updateExpense", "approveExpense", "rejectExpense",
             "deleteExpense", "deleteTeam", "checkBudgetAlerts"}

C10_TotalSpentIsApprovedSum ==
    last.op \in TotalOps
        => \A t \in Teams :
               teams[t].exists => teams[t].totalSpent = ApprovedTotal(expenses, t)

\* C11 (SpecSuggest): suggestCategory returns a category of the enum and a
\* numeric confidence in [0,1] whatever the classifier does (not configured,
\* rejecting, malformed response), and a malformed response (not JSON, or JSON
\* without a listed category or without a numeric confidence) gives the result
\* of the keyword fallback.
Malformed(completion) ==
    \/ completion.kind \in {"text", "primitive"}
    \/ /\ completion.kind = "object"
       /\ \/ completion.category \notin CategorySet
          \/ completion.confidence.type # "number"

C11_SuggestAlwaysValid ==
    (call.fn = "suggestCategory" /\ result # NoResult)
        => /\ result.category \in CategorySet
           /\ ~result.confidence.isNaN
           /\ result.confidence.value \in 0..100
           /\ (call.openai /\ Malformed(call.completion))
                => result = FallbackCategorySuggestion(call.description)

\* C17 (SpecSuggest): without a classifier the result is the category with the
\* highest min(0.8, 0.3 + 0.2 * matches) among those with a keyword in the
\* lower-cased description, the first in declaration order on ties, and
\* {other, 0.1} when nothing matches; 'Flight to client site' gives travel
\* with a confidence in [0.3, 0.8].
FlightToClientSite == <<"F", "l", "i", "g", "h", "t", " ", "t", "o", " ", "c", "l", "i", "e", "n", "t", " ", "s", "i", "t", "e">>

Score(description, c) ==
    LET m == Matches(ToLowerCase(description), categoryKeywords[c].keywords)
    IN IF m = 0 THEN 0
       ELSE IF 30 + 20 * m <= 80 THEN 30 + 20 * m ELSE 80

C17_KeywordFallback ==
    (call.fn = "suggestCategory" /\ ~call.openai /\ result # NoResult)
        => LET d == call.description
               cs == 1..Len(categoryKeywords)
           IN /\ (\A c \in cs : Score(d, c) = 0)
                    => result = [category |-> "other", confidence |-> Num(10)]
              /\ (\E c \in cs : Score(d, c) > 0)
                    => \E c \in cs :
                          /\ result.category = categoryKeywords[c].category
                          /\ result.confidence = Num(Score(d, c))
                          /\ \A x \in cs : Score(d, x) <= Score(d, c)
                          /\ \A x \in cs : x < c => Score(d, x) < Score(d, c)
              /\ [c \in cs |-> categoryKeywords[c].category]
                    = SubSeq(categories, 1, Len(categories) - 1)
              /\ d = FlightToClientSite
                    => /\ result.category = "travel"
                       /\ result.confidence.value \in 30..80

C17_Witness ==
    /\ call.fn = "suggestCategory"
    /\ ~call.openai
    /\ call.description = FlightToClientSite
    /\ result # NoResult
    /\ result.category = "travel"
    /\ \E c \in 2..Len(categoryKeywords) :
          Score(call.description, c) = Score(call.description, 1)

\* C12 (SpecSimilarity): calculateTextSimilarity is symmetric, is 1 on
\* identical strings, lies in [0,1] on non-empty strings, and the copies of
\* AIService and ExpenseService return the same value.
C12_SimilaritySymmetric ==
    (call.fn = "calculateTextSimilarity" /\ result # NoResult)
        => /\ SameValue(result.ai,
                        AIService_calculateTextSimilarity(call.str2, call.str1))
           /\ SameValue(result.expense,
                        ExpenseService_calculateTextSimilarity(call.str2, call.str1))
           /\ call.str1 = call.str2
                => (SameValue(result.ai, Ratio(1, 1))
                    /\ SameValue(result.expense, Ratio(1, 1)))
           /\ (call.str1 # <<>> /\ call.str2 # <<>>)
                => /\ result.ai.den > 0
                   /\ result.ai.num \in 0..result.ai.den
           /\ SameValue(result.ai, result.expense)

C12_Witness ==
    /\ call.fn = "calculateTextSimilarity"
    /\ result # NoResult
    /\ Len(call.str1) < Len(call.str2)
    /\ call.str1 # <<>>
    /\ result.ai.num > 0
    /\ result.ai.num < result.ai.den

\* C13 (SpecSuspicious): a duplicate finding is recorded for a pair of the
\* window exactly when the amounts differ by less than 0.01, the dates are at
\* most 7 days apart and the similarity of the lower-cased descriptions is
\* above 0.7; each pair once, with the similarity as confidence; two 50.00
\* expenses 2 days apart, 'Team lunch' and 'Team Lunch ', are flagged.
Findings(type) ==
    {k \in 1..Len(result.detected) : result.detected[k].type = type}

LowerSimilarity(exp1, exp2) ==
    AIService_calculateTextSimilarity(ToLowerCase(exp1.description),
                                      ToLowerCase(exp2.description))

ExpectedDuplicate(exp1, exp2) ==
    /\ exp1.amount = exp2.amount
    /\ exp1.date - exp2.date \in -7..7
    /\ 10 * LowerSimilarity(exp1, exp2).num > 7 * LowerSimilarity(exp1, exp2).den

LunchPair(i, j) ==
    /\ {call.expenses[i].description, call.expenses[j].description}
          = {TeamLunch, TeamLunchSpaced}
    /\ call.expenses[i].amount = 50
    /\ call.expenses[j].amount = 50
    /\ call.expenses[i].date - call.expenses[j].date = 2

C13_DuplicatePairs ==
    (call.fn = "detectSuspiciousExpenses" /\ result # NoResult)
        => LET w == call.expenses
               n == Len(w)
           IN /\ \A i \in 1..n, j \in 1..n :
                    i < j =>
                      LET found == {k \in Findings("potential_duplicate") :
                                      result.detected[k].expenses = <<i, j>>}
                      IN /\ Cardinality(found) = IF ExpectedDuplicate(w[i], w[j])
                                                 THEN 1 ELSE 0
                         /\ \A k \in found :
                               SameValue(result.detected[k].confidence,
                                         LowerSimilarity(w[i], w[j]))
                         /\ LunchPair(i, j) => found # {}
              /\ \A k \in Findings("potential_duplicate") :
                    \E i \in 1..n, j \in 1..n :
                        i < j /\ result.detected[k].expenses = <<i, j>>

C13_Witness ==
    /\ call.fn = "detectSuspiciousExpenses"
    /\ result # NoResult
    /\ \E i \in 1..Len(call.expenses), j \in 1..Len(call.expenses) :
          /\ i < j
          /\ LunchPair(i, j)
          /\ \E k \in Findings("potential_duplicate") :
                result.detected[k].expenses = <<i, j>>
    /\ \E i \in 1..Len(call.expenses), j \in 1..Len(call.expenses) :
          /\ i < j
          /\ call.expenses[i].amount = call.expenses[j].amount
          /\ ~ExpectedDuplicate(call.expenses[i], call.expenses[j])

\* C14 (SpecSuspicious): outliers are looked for only in a window of more
\* than 5 expenses; then exactly the expenses with amount > Q3 + 1.5 (Q3 - Q1)
\* are flagged, Q1 and Q3 being the elements of rank floor(0.25 n) and
\* floor(0.75 n) of the ascending amounts; [10,12,11,13,9,500] flags only
\* 500 and [10,12,11,13,9] flags nothing.
Rank(w, k) ==
    CHOOSE v \in {w[i].amount : i \in 1..Len(w)} :
        /\ Cardinality({i \in 1..Len(w) : w[i].amount < v}) <= k
        /\ Cardinality({i \in 1..Len(w) : w[i].amount <= v}) > k

ExpectedOutliers(w) ==
    IF Len(w) <= 5 THEN {}
    ELSE LET q1 == Rank(w, (Len(w) * 25) \div 100)
             q3 == Rank(w, (Len(w) * 75) \div 100)
         IN {i \in 1..Len(w) : 2 * w[i].amount > 2 * q3 + 3 * (q3 - q1)}

FlaggedOutliers ==
    {result.detected[k].expenses[1] : k \in Findings("high_amount_outlier")}

C14_Outliers ==
    (call.fn = "detectSuspiciousExpenses" /\ result # NoResult)
        => /\ FlaggedOutliers = ExpectedOutliers(call.expenses)
           /\ Cardinality(Findings("high_amount_outlier"))
                = Cardinality(FlaggedOutliers)
           /\ call.expenses = AmountsWindow(<<10, 12, 11, 13, 9, 500>>)
                => FlaggedOutliers = {6}
           /\ call.expenses = AmountsWindow(<<10, 12, 11, 13, 9>>)
                => result.detected = <<>>

C14_Witness ==
    /\ call.fn = "detectSuspiciousExpenses"
    /\ result # NoResult
    /\ call.expenses = AmountsWindow(<<10, 12, 11, 13, 9, 500>>)
    /\ FlaggedOutliers = {6}

\* C15 (SpecSuspicious): the returned list is the first 10 findings in
\* detection order (the duplicate pairs in scan order, then the outliers in
\* expense order) and suspiciousCount is the number of findings before the cut.
Before(a, b) ==
    \/ a[1] < b[1]
    \/ a[1] = b[1] /\ Len(a) > 1 /\ Len(b) > 1 /\ a[2] < b[2]

C15_TopTen ==
    (call.fn = "detectSuspiciousExpenses" /\ result # NoResult)
        => LET all == result.detected
           IN /\ Len(result.suspicious) <= 10
              /\ Len(result.suspicious) = IF Len(all) <= 10 THEN Len(all) ELSE 10
              /\ \A k \in 1..Len(result.suspicious) : result.suspicious[k] = all[k]
              /\ result.suspiciousCount = Len(all)
              /\ result.suspiciousCount
                   = Cardinality({p \in (1..Len(call.expenses)) \X (1..Len(call.expenses)) :
                                    /\ p[1] < p[2]
                                    /\ ExpectedDuplicate(call.expenses[p[1]],
                                                         call.expenses[p[2]])})
                     + Cardinality(ExpectedOutliers(call.expenses))
              /\ \A k \in 1..Len(all), l \in 1..Len(all) :
                    k < l =>
                      /\ all[k].type = "high_amount_outlier"
                            => all[l].type = "high_amount_outlier"
                      /\ all[k].type = all[l].type
                            => Before(all[k].expenses, all[l].expenses)

C15_Witness ==
    /\ call.fn = "detectSuspiciousExpenses"
    /\ result # NoResult
    /\ result.suspiciousCount > 10
    /\ Len(result.suspicious) = 10
    /\ result.detected[Len(result.detected)].type = "high_amount_outlier"
    /\ \A k \in 1..Len(result.suspicious) :
          result.suspicious[k].type = "potential_duplicate"

\* C16 (SpecTrend): with fewer than 3 daily totals the direction is
\* insufficient_data; otherwise, the list split at floor(n/2), it is increasing
\* when the average of the second part is above that of the first by more than
\* a tenth of it, decreasing when below by more than a tenth of it, stable
\* otherwise; the daily totals 10,10,10,50,50,50 give increasing, high.
DayTotals == [d \in 1..Len(call.days) |-> SumSeq(call.days[d])]

ExpectedDirection(totals) ==
    LET n == Len(totals)
        h == n \div 2
        first == SumSeq(SubSeq(totals, 1, h))
        second == SumSeq(SubSeq(totals, h + 1, n))
        \* ten times the averages, over the denominator h * (n - h)
        a1 == 10 * first * (n - h)
        a2 == 10 * second * h
    IN IF n < 3 THEN "insufficient_data"
       ELSE IF 10 * (a2 - a1) > a1 THEN "increasing"
       ELSE IF 10 * (a1 - a2) > a1 THEN "decreasing"
       ELSE "stable"

C18_StatusLifecycle ==
    [][\A e \in ExpenseIds(expenses) :
          LET old == expenses[e]
              new == expenses'[e]
              acted == call'.fn \in {"approveExpense", "rejectExpense", "updateExpense"}
                       /\ call'.expense = e
          IN /\ new.status # old.status
                   => /\ old.status = "pending"
                      /\ new.status \in {"approved", "rejected"}
                      /\ acted
             /\ (acted /\ ~(old.isActive /\ old.status = "pending"))
                   => (~last'.ok /\ expenses' = expenses /\ teams' = teams)
             /\ (acted /\ call'.fn = "updateExpense")
                   => /\ new.status = old.status
                      /\ new.approvedBy = old.approvedBy
                      /\ new.aiInsights = old.aiInsights]_vars

\* C19 (Spec): when approveExpense has succeeded for an expense of an active
\* team, the total of the team is the one recomputed with the approved expense
\* in it, the thresholds were compared with the utilization of that total, and
\* the alert it calls for was handed to the notifier in the same call:
\* critical at or above the critical threshold with the critical flag clear,
\* otherwise warning at or above the warning threshold with the warning flag
\* clear.
Threshold(level) ==
    IF level = "critical" THEN CRITICAL_THRESHOLD ELSE WARNING_THRESHOLD

Approved == last.op = "approveExpense" /\ last.ok /\ Len(last.checks) = 1

RecomputedUtilization == ActualUtilization(teams, expenses, last.team)

BelowWarning(i) == outlog[i].success /\ outlog[i].utilization < WARNING_THRESHOLD

C20_ResetBelowWarning ==
    \A i \in 1..pos :
        BelowWarning(i)
            => /\ outlog[i].utilization = feed[i]
               /\ outlog[i].after = NoFlags
               /\ outlog[i].alerts = <<>>
               /\ outlog[i].sends = <<>>
               /\ (i = pos => teams[FirstTeam].alertsSent = NoFlags)
               /\ (i < pos => outlog[i + 1].before = NoFlags)

C20_Witness ==
    /\ pos >= 1
    /\ BelowWarning(pos)
    /\ outlog[pos].before = [warning |-> TRUE, critical |-> TRUE]
    /\ teams[FirstTeam].alertsSent = NoFlags

\* C21 (Spec): the alert flags of a team change only in a step in which
\* checkBudgetAlerts evaluated the team; createTeam, updateTeam, deleteTeam and
\* the expense operations leave alertsSent as it was, and a team just created
\* has both flags false whatever the caller supplied.
FlagsChanged(t) == teams'[t].alertsSent # teams[t].alertsSent

EvaluatedIn(checks, t) ==
    \E i \in 1..Len(checks) : checks[i].team = t /\ checks[i].found

C21_FlagsOnlyByEvaluation ==
    [][/\ \A t \in Teams : FlagsChanged(t) => EvaluatedIn(last'.checks, t)
       /\ (last'.op = "createTeam" /\ last'.ok)
             => teams'[last'.team].alertsSent = NoFlags]_vars

\* C22 (SpecOrder): checkAllTeamsBudgetAlerts evaluates every active team on
\* its own: an evaluation of one team changes no other team, in whatever order
\* the teams are taken each team ends as its evaluation taken alone leaves it
\* and the results are those of the evaluations taken alone, the other teams
\* stay as they were, and totalAlerts is the number of alerts handed to the
\* notifier over all teams.
ResultSet(results) == {results[i] : i \in 1..Len(results)}

CountSends(results) ==
    SumSeq([i \in 1..Len(results) |-> Len(results[i].sends)])

EvaluatedAlone(t, mo) ==
    CheckBudgetAlerts(teams, expenses, emailService, t, mo[t], phase[t])

C22_BatchIndependent ==
    [][/\ \A t \in ActiveTeams :
             /\ teams'[t] = EvaluatedAlone(t, call'.mo).teams[t]
             /\ \A x \in Teams \ {t} : EvaluatedAlone(t, call'.mo).teams[x] = teams[x]
       /\ \A t \in Teams \ ActiveTeams : teams'[t] = teams[t]
       /\ ResultSet(last'.checks)
             = {EvaluatedAlone(t, call'.mo).res : t \in ActiveTeams}
       /\ Len(last'.checks) = Cardinality(ActiveTeams)
       /\ result'.teamsChecked = Cardinality(ActiveTeams)
       /\ result'.totalAlerts = CountSends(last'.checks)]_vars

C22_Witness ==
    /\ last.op = "checkAllTeamsBudgetAlerts"
    /\ Len(last.checks) >= 2
    /\ call.order[1] > call.order[2]
    /\ result.totalAlerts = 2
    /\ \E i, j \in 1..Len(last.checks) :
          last.checks[i].alerts = <<"warning">> /\ last.checks[j].alerts = <<"critical">>

\* C23 (SpecClassify): for an answer of the classifier with a numeric
\* confidence c, a category outside the enum gives category other, confidence
\* max(0.1, c - 0.3) clamped to [0, 1] and the reasoning with a note appended;
\* a category of the enum is kept, with c clamped to [0, 1] and the reasoning
\* as it was.
Clamp(x) == IF x < 0 THEN 0 ELSE IF x > 100 THEN 100 ELSE x

Penalized(c) == IF c - 30 > 10 THEN c - 30 ELSE 10

Classified ==
    /\ call.fn = "suggestCategory"
    /\ result # NoResult
    /\ call.openai
    /\ call.completion.kind = "object"
    /\ call.completion.confidence.type = "number"

C23_CategoryCorrection ==
    Classified
        => LET c == call.completion.confidence.value
               given == call.completion.reasoning
           IN IF call.completion.category \in CategorySet
              THEN /\ result.category = call.completion.category
                   /\ result.confidence = Num(Clamp(c))
                   /\ result.reasoning = <<given>>
              ELSE /\ result.category = "other"
                   /\ result.confidence = Num(Clamp(Penalized(c)))
                   /\ Len(result.reasoning) = 2
                   /\ result.reasoning[1] = given
                   /\ result.reasoning[2] = CorrectedNote

C23_Witness ==
    /\ Classified
    /\ call.completion.category = "misc"
    /\ call.completion.confidence.value = 90
    /\ result.category = "other"
    /\ result.confidence = Num(60)
    /\ result.reasoning = <<"classifier", CorrectedNote>>

\* C24 (SpecForecast): avgDailySpend is the total of the recent expenses
\* divided by max(1, daysWithData), daysWithData being the number of distinct
\* days with an expense; projectedSpend is avgDailySpend * forecastPeriodDays
\* and the projected total is the stored totalSpent plus projectedSpend.
DaysWithData == Len(call.days)

RecentTotal == SumSeq([d \in 1..Len(call.days) |-> SumSeq(call.days[d])])

C24_AveragePerDayWithData ==
    (call.fn = "calculateBudgetForecast" /\ result # NoResult)
        => LET days == Max(1, DaysWithData)
           IN /\ result.hasData
                    => SameValue(result.avgDailySpending, Ratio(RecentTotal, days))
              /\ SameValue(result.projectedSpending,
                           Ratio(RecentTotal * call.forecastPeriodDays, days))
              /\ SameValue(result.projectedTotal,
                           Ratio(call.totalSpent * days
                                 + RecentTotal * call.forecastPeriodDays, days))

\* C25 (SpecTrend): the strength of the trend is low, medium or high: high when
\* the second-half average differs from the first-half average by more than
\* 50% of it, medium when by more than 20%, low otherwise.
ExpectedStrength(totals) ==
    LET n == Len(totals)
        h == n \div 2
        first == SumSeq(SubSeq(totals, 1, h))
        second == SumSeq(SubSeq(totals, h + 1, n))
        \* the averages over the denominator h * (n - h)
        a1 == first * (n - h)
        a2 == second * h
    IN IF 100 * Abs(a2 - a1) > 50 * a1 THEN "high"
       ELSE IF 100 * Abs(a2 - a1) > 20 * a1 THEN "medium"
       ELSE "low"

C25_TrendStrength ==
    (call.fn = "calculateSpendingTrend" /\ result # NoResult)
        => /\ result.trend.strength \in {"low", "medium", "high"}
           /\ result.trend.strength = ExpectedStrength(DayTotals)

\* C26 (SpecUtilization): the utilization checkBudgetAlerts compares with the
\* thresholds is the quotient totalSpent / budget * 100 rounded to the nearest
\* integer, halves up, for a positive budget and 0 otherwise, of the total
\* recomputed at the start of the evaluation.
C26_UtilizationRounded ==
    (call.fn = "checkBudgetAlerts" /\ result # NoResult)
        => /\ result.totalSpent = call.approved
           /\ result.budgetUtilization
                 = IF call.team.budget > 0
                   THEN Round(call.approved * 100, call.team.budget)
                   ELSE 0

\* C27 (SpecMail): sendBudgetAlert never rejects; a configured Brevo is called
\* first and the backup transporter only when Brevo is not configured or
\* failed; a success names the provider that delivered, and the result is
\* success false, with the alert written to the console, exactly when every
\* provider called failed.
Delivers(provider) ==
    IF provider = "brevo" THEN call.cfg.isBrevoConfigured /\ call.mo.brevoOK
    ELSE call.cfg.isBackupConfigured /\ call.mo.backupOK

Attempted == {result.attempts[i] : i \in 1..Len(result.attempts)}

C27_SendNeverRejects ==
    (call.fn = "sendBudgetAlert" /\ result # NoResult)
        => /\ ~result.mail.rejected
           /\ call.cfg.isBrevoConfigured => result.attempts[1] = "brevo"
           /\ "backup" \in Attempted
                 => (~call.cfg.isBrevoConfigured \/ ~call.mo.brevoOK)
           /\ (result.mail.success /\ Attempted # {})
                 => /\ result.mail.provider \in Attempted
                    /\ Delivers(result.mail.provider)
                    /\ result.mail.provider = result.attempts[Len(result.attempts)]
           /\ (result.mail.success /\ Attempted = {})
                 => result.mail.provider = "console-log" /\ result.consoleLog
           /\ ~result.mail.success
                 <=> (Attempted # {} /\ \A p \in Attempted : ~Delivers(p))
           /\ ~result.mail.success => result.consoleLog

C27_Witness ==
    /\ call.fn = "sendBudgetAlert"
    /\ result # NoResult
    /\ result.attempts = <<"brevo", "backup">>
    /\ result.mail.success
    /\ result.mail.provider = "backup"

\* C28 (SpecCreate): createExpense has saved the expense before the category
\* suggestion and the duplicate check run; whatever fails in either of the two
\* steps, the call goes on to return the expense; and the expense, stored and
\* returned, keeps the category, amount and status it was created with.
StepsBegun ==
    result # NoResult /\ result.pc \in {"saved", "suggested", "checked", "returned"}

KeepsCreatedFields(doc) ==
    /\ doc.category = call.category
    /\ doc.amount = call.amount
    /\ doc.status = call.status

C28_CreateSurvivesFailures ==
    [][/\ (result' # NoResult /\ result'.pc = "rejected")
             => (result = NoResult \/ At("checked"))
       /\ (At("saved") \/ At("suggested"))
             => result'.pc \in {"suggested", "checked"}
       /\ StepsBegun'
             => /\ result'.events[1] = "save"
                /\ result'.id \in ExpenseIds(expenses')
                /\ KeepsCreatedFields(expenses'[result'.id])
                /\ KeepsCreatedFields(result'.expense)
                /\ expenses'[result'.id].isActive]_vars

C28_Witness ==
    /\ result # NoResult
    /\ result.pc = "returned"
    /\ result.events = <<"save", "suggestion threw", "duplicate save threw", "return">>
    /\ KeepsCreatedFields(expenses[result.id])
    /\ call.status = "approved"
    /\ teams[FirstTeam].totalSpent = call.amount

\* C29 (SpecEval): within a checkBudgetAlerts call the notifier is called for
\* a level before the save that records the flag of that level; when that
\* save fails after the notifier was called, the call returns success false
\* without throwing and the stored flag of the level is still false.
SendCalled(events, l) ==
    \E i \in 1..Len(events) : events[i] = EvalEvent("send", l)

FlagRaised(l) ==
    teams'[FirstTeam].alertsSent[l] /\ ~teams[FirstTeam].alertsSent[l]

SaveFailedAfterSend(l) ==
    /\ At("returned")
    /\ SendCalled(result.events, l)
    /\ result.events[Len(result.events)] = EvalEvent("save threw", l)

C29_SendBeforeSave ==
    [][\A l \in Levels :
          /\ FlagRaised(l)
                => /\ SendCalled(result.events, l)
                   /\ result'.events[Len(result'.events)] = EvalEvent("save", l)
          /\ SaveFailedAfterSend(l)'
                => /\ result'.out.returned
                   /\ ~result'.out.success
                   /\ ~result'.out.threw
                   /\ ~teams'[FirstTeam].alertsSent[l]]_vars

C29_Witness ==
    /\ SaveFailedAfterSend("warning")
    /\ result.doc.alertsSent.warning
    /\ ~teams[FirstTeam].alertsSent.warning
    /\ ~result.out.success

\* C30 (SpecTrack): under any interleaving of overlapping track() calls whose
\* promises settle in any order, loading is true exactly while at least one
\* track() call has not run its finally block, which covers every call whose
\* promise is unsettled; pending counts those calls and is never below zero;
\* loading is false once every call has run its finally block.
Unsettled ==
    {i \in 1..Len(result.tracked) : result.tracked[i].promise = "pending"}

Unfinished ==
    {i \in 1..Len(result.tracked) : ~result.tracked[i].finished}

C30_LoadingWhileTracking ==
    /\ result.loading <=> Unfinished # {}
    /\ Unsettled \subseteq Unfinished
    /\ result.pending = Cardinality(Unfinished)
    /\ result.pending >= 0

\* two overlapping calls, the second finished (its promise rejected) while the
\* promise of the first is unsettled
C30_Witness ==
    /\ Len(result.tracked) >= 2
    /\ result.tracked[1].promise = "pending"
    /\ result.tracked[2].promise = "rejected"
    /\ result.tracked[2].finished
    /\ result.loading
    /\ result.pending = 1

\* C30 as stated: loading is true exactly while at least one tracked promise
\* is unsettled, pending is never below zero, and loading is false once every
\* tracked promise has settled.
C30_LoadingWhileUnsettled ==
    /\ result.loading <=> Unsettled # {}
    /\ result.pending >= 0

=============================================================================
